---- MODULE Spec2Model ----
(***************************************************************************)
(* Songbird VoiceChat firmware: the serial transport receiver              *)
(* (SerialProtocol) and the playback engine (PlaybackEngine), as state     *)
(* machines over a shared SD-card storage.                                 *)
(*                                                                         *)
(* Bytes are naturals 0..255.  Strings (paths, user names) are sequences   *)
(* of character codes.  A 32-bit unsigned value is a pair <<hi, lo>> of    *)
(* 16-bit halves, so that arithmetic modulo 2^32 is exact.                 *)
(***************************************************************************)
EXTENDS Integers, Sequences, FiniteSets, TLC

VARIABLES
    sp,       \* the SerialProtocol object (its member fields)
    sd,       \* SD-card storage: path -> file content (sequence of bytes; a
              \* last entry -n stands for n more bytes of value 0, which
              \* keeps a file of 64 KB small in a state)
    sdOk,     \* TRUE while the card accepts SD.open(..., FILE_WRITE)
    wire,     \* bytes the bridge has emitted, not yet in the serial buffer
    avail,    \* bytes in the serial buffer (serial->available())
    ret,      \* result of the last call of the spec's handler
    now,      \* millis(), a 32-bit value
    h,        \* history of the receiver (not read by the code)
    cur,      \* history: the frame the bridge emitted last
    clk,      \* history: true elapsed times
    pb,       \* the PlaybackEngine object (its member fields)
    ph,       \* history of the playback engine
    rec,      \* the RecordingEngine object (its member fields, its codec)
    rg,       \* history of the recording engine
    cardIn,   \* TRUE while a card is in the slot and SD.begin() succeeds
    free,     \* bytes the card still takes from a File::write()
    dirs,     \* the directories on the card
    tx        \* the serial->write() calls of begin(), sendFile() and the
              \* application's sendLog(), each the bytes it wrote (the log
              \* lines of the receiving side are not recorded)

vars == <<sp, sd, sdOk, wire, avail, ret, now, h, cur, clk, pb, ph, rec, rg, cardIn, free, dirs, tx>>

-----------------------------------------------------------------------------
(* Bounds of the model *)

MaxPayload == 2      \* longest payload of an emitted audio frame
MaxFrames == 1       \* files the receiver may create per power-up
MaxChunk == 2        \* bytes moved into the serial buffer at once
MaxGarbage == 3      \* garbage bytes emitted per behaviour
MaxRestarts == 1     \* power cycles per behaviour
MaxPackets == 2      \* most packets of a container file on the card
QueueLen == 3        \* files of a queue played through
MaxTicks == 2        \* clock advances per behaviour

-----------------------------------------------------------------------------
(* Program constants *)

SYNC_BYTE_1 == 170
SYNC_BYTE_2 == 85
MAX_USERNAME_LEN == 31
MAX_USERS == 20
CONTROL_CHANNEL == 255
MSG_TYPE_JOIN == 1
MSG_TYPE_PART == 2
MSG_TYPE_PING == 3
CONNECTION_TIMEOUT_MS == 3000
RX_FILE_PATH_SIZE == 64

\* MAX_FILE_SIZE 65536 as a 32-bit value
MAX_FILE_SIZE == <<1, 0>>

RX_DIR_PREFIX == <<47, 82, 88, 47, 67, 72>>                 \* "/RX/CH"

-----------------------------------------------------------------------------
(* 32-bit unsigned arithmetic on <<hi, lo>> *)

U32Zero == <<0, 0>>

U32Add(a, b) ==
    LET lo == a[2] + b[2]
    IN  << (a[1] + b[1] + (lo \div 65536)) % 65536, lo % 65536 >>

U32Sub(a, b) ==
    LET lo == a[2] - b[2]
    IN  << (a[1] - b[1] - (IF lo < 0 THEN 1 ELSE 0)) % 65536, lo % 65536 >>

U32Gt(a, b) == a[1] > b[1] \/ (a[1] = b[1] /\ a[2] > b[2])

U32OfNat(n) == << (n \div 65536) % 65536, n % 65536 >>

\* little-endian accumulation of the four length bytes
LengthOfBytes(b) == << b[3] + 256 * b[4], b[1] + 256 * b[2] >>

-----------------------------------------------------------------------------
(* Strings *)

IsDigit(c) == c >= 48 /\ c <= 57

RECURSIVE Dec(_)
Dec(n) == IF n < 10 THEN <<48 + n>> ELSE Dec(n \div 10) \o <<48 + (n % 10)>>

RECURSIVE PadLeft(_, _)
PadLeft(s, w) == IF Len(s) >= w THEN s ELSE PadLeft(<<48>> \o s, w)

\* the characters of a char buffer up to its first NUL
CStr(buf) ==
    LET zs == {i \in 1..Len(buf) : buf[i] = 0}
    IN  IF zs = {} THEN buf
        ELSE SubSeq(buf, 1, (CHOOSE i \in zs : \A j \in zs : i <= j) - 1)

\* snprintf into a buffer of `size` chars keeps size - 1 characters
Snprintf(size, s) == IF Len(s) > size - 1 THEN SubSeq(s, 1, size - 1) ELSE s

-----------------------------------------------------------------------------
(* SerialProtocol: the object *)

NoFile == <<>>                     \* a File that is not open

ZeroBuf(n) == [i \in 1..n |-> 0]

\* SerialProtocol::SerialProtocol()
SerialProtocolCtor ==
    [ serial           |-> FALSE,
      rxState          |-> "RX_WAIT_SYNC1",
      rxFileLength     |-> U32Zero,
      rxBytesReceived  |-> 0,
      rxChannel        |-> 0,
      rxLengthBytes    |-> ZeroBuf(4),
      rxLengthPos      |-> 0,
      rxMsgType        |-> 0,
      rxUsernameLen    |-> 0,
      rxUsernamePos    |-> 0,
      rxUsername       |-> ZeroBuf(MAX_USERNAME_LEN + 1),
      rxFile           |-> NoFile,
      rxFilePath       |-> <<>>,
      rxFileReady      |-> FALSE,
      rxSequence       |-> 0,
      lastActivityTime |-> U32Zero,
      users            |-> [i \in 1..MAX_USERS |-> <<>>],
      userCount        |-> 0,
      userListChanged  |-> FALSE ]

\* SerialProtocol::resetRxState()
resetRxState(s) ==
    [s EXCEPT !.rxState = "RX_WAIT_SYNC1",
              !.rxFileLength = U32Zero,
              !.rxBytesReceived = 0,
              !.rxLengthPos = 0,
              !.rxMsgType = 0,
              !.rxUsernameLen = 0,
              !.rxUsernamePos = 0,
              !.rxUsername[1] = 0,
              !.rxFile = NoFile]

\* SerialProtocol::isConnected()
isConnected(s, t) ==
    LET d == U32Sub(t, s.lastActivityTime)
    IN  d[1] = 0 /\ d[2] < CONNECTION_TIMEOUT_MS

\* SerialProtocol::findUser(): index (from 0) of the first match, or -1
findUser(s, username) ==
    LET hits == {i \in 0..(s.userCount - 1) : s.users[i + 1] = username}
    IN  IF hits = {} THEN -1 ELSE CHOOSE i \in hits : \A j \in hits : i <= j

\* strncpy(dst, src, MAX_USERNAME_LEN); dst[MAX_USERNAME_LEN] = 0
Strncpy(username) ==
    IF Len(username) > MAX_USERNAME_LEN
    THEN SubSeq(username, 1, MAX_USERNAME_LEN) ELSE username

\* mutant: a name already in the roster is added again
addUser_NoDupCheck(s, username) ==
    IF s.userCount >= MAX_USERS THEN s
    ELSE [s EXCEPT !.users[s.userCount + 1] = Strncpy(username),
                   !.userCount = s.userCount + 1,
                   !.userListChanged = TRUE]

\* SerialProtocol::addUser()
addUser(s, username) ==
    IF s.userCount >= MAX_USERS THEN s
    ELSE IF findUser(s, username) >= 0 THEN s
    ELSE [s EXCEPT !.users[s.userCount + 1] = Strncpy(username),
                   !.userCount = s.userCount + 1,
                   !.userListChanged = TRUE]

\* mutant: a part for an absent name marks the roster changed
removeUser_MarksAlways(s, username) ==
    LET idx == findUser(s, username)
    IN  IF idx < 0 THEN [s EXCEPT !.userListChanged = TRUE]
        ELSE [s EXCEPT
                !.users = [i \in 1..MAX_USERS |->
                             IF i - 1 >= idx /\ i - 1 < s.userCount - 1
                             THEN s.users[i + 1]
                             ELSE IF i - 1 = s.userCount - 1 THEN <<>>
                             ELSE s.users[i]],
                !.userCount = s.userCount - 1,
                !.userListChanged = TRUE]

\* mutant: the last entry fills the hole, the others stay where they are
removeUser_SwapLast(s, username) ==
    LET idx == findUser(s, username)
    IN  IF idx < 0 THEN s
        ELSE [s EXCEPT
                !.users = [i \in 1..MAX_USERS |->
                             IF i - 1 = s.userCount - 1 THEN <<>>
                             ELSE IF i - 1 = idx THEN s.users[s.userCount]
                             ELSE s.users[i]],
                !.userCount = s.userCount - 1,
                !.userListChanged = TRUE]

\* SerialProtocol::getUser(): the entry, or <<>> standing for nullptr
getUser(s, index) == IF index >= s.userCount THEN <<>> ELSE s.users[index + 1]

\* SerialProtocol::clearUserListChanged()
clearUserListChanged(s) == [s EXCEPT !.userListChanged = FALSE]

\* SerialProtocol::removeUser()
removeUser(s, username) ==
    LET idx == findUser(s, username)
    IN  IF idx < 0 THEN s
        ELSE [s EXCEPT
                !.users = [i \in 1..MAX_USERS |->
                             IF i - 1 >= idx /\ i - 1 < s.userCount - 1
                             THEN s.users[i + 1]
                             ELSE IF i - 1 = s.userCount - 1 THEN <<>>
                             ELSE s.users[i]],
                !.userCount = s.userCount - 1,
                !.userListChanged = TRUE]

-----------------------------------------------------------------------------
(* Received-file names *)

MSG_ == <<47, 77, 83, 71, 95>>                    \* "/MSG_"
FROM_ == <<95, 102, 114, 111, 109, 95>>           \* "_from_"
DOT_OPUS == <<46, 111, 112, 117, 115>>            \* ".opus"

\* the path openRxFile() formats into rxFilePath
RxFilePathOf(s) ==
    Snprintf(RX_FILE_PATH_SIZE,
        IF s.rxUsernameLen > 0
        THEN RX_DIR_PREFIX \o Dec(s.rxChannel) \o MSG_ \o PadLeft(Dec(s.rxSequence), 5)
               \o FROM_ \o CStr(s.rxUsername) \o DOT_OPUS
        ELSE RX_DIR_PREFIX \o Dec(s.rxChannel) \o MSG_ \o PadLeft(Dec(s.rxSequence), 5)
               \o DOT_OPUS)

\* the file name of a path: what follows its last '/'
BaseName(path) ==
    LET slashes == {i \in 1..Len(path) : path[i] = 47}
    IN  IF slashes = {} THEN path
        ELSE SubSeq(path, (CHOOSE i \in slashes : \A j \in slashes : j <= i) + 1, Len(path))

RECURSIVE ToInt(_, _)
ToInt(str, acc) ==
    IF str = <<>> \/ ~IsDigit(Head(str)) THEN acc
    ELSE ToInt(Tail(str), 10 * acc + (Head(str) - 48))

\* the sequence number embedded in a stored message name MSG_<digits>..., or -1
SeqOfPath(path) ==
    LET n == BaseName(path)
    IN  IF Len(n) >= 5 /\ SubSeq(n, 1, 4) = SubSeq(MSG_, 2, 5) /\ IsDigit(n[5])
        THEN ToInt(SubSeq(n, 5, Len(n)), 0) ELSE -1

IsRxPath(path) ==
    Len(path) > Len(RX_DIR_PREFIX) /\ SubSeq(path, 1, Len(RX_DIR_PREFIX)) = RX_DIR_PREFIX

MaxOf(S) == IF S = {} THEN -1 ELSE CHOOSE x \in S : \A y \in S : y <= x

\* the highest sequence number among the received files on storage, or -1
StoredRxMax(store) == MaxOf({SeqOfPath(p) : p \in {q \in DOMAIN store : IsRxPath(q)}})

-----------------------------------------------------------------------------
(* SerialProtocol::processIncoming(): one byte of the receive state machine. *)
(* A machine m is [sp, sd, h]: the object, the storage and the history; a    *)
(* step yields the machine plus ret: "cont" (the loop goes on), "true" or    *)
(* "false" (the call returns).                                               *)

Step(m, s, r) == [sp |-> s, sd |-> m.sd, h |-> m.h, ret |-> r]

\* the length field as a number; read only once it is known to be <= 65536
LengthValue(s) == s.rxFileLength[1] * 65536 + s.rxFileLength[2]

\* SD.open(rxFilePath, FILE_WRITE): creates the file, or opens it at its end
SdOpenWrite(store, path) ==
    IF path \in DOMAIN store THEN store ELSE store @@ (path :> <<>>)

\* SerialProtocol::openRxFile(); the result is in h.lastOpen
openRxFile(m, ok) ==
    LET path == RxFilePathOf(m.sp)
        s1 == [m.sp EXCEPT !.rxFilePath = path]
    IN  IF ~ok
        THEN [sp |-> [s1 EXCEPT !.rxFile = NoFile],
              sd |-> m.sd,
              h |-> [m.h EXCEPT !.lastOpen = "fail"]]
        ELSE [sp |-> [s1 EXCEPT !.rxFile = path, !.rxSequence = m.sp.rxSequence + 1],
              sd |-> SdOpenWrite(m.sd, path),
              h |-> [m.h EXCEPT !.lastOpen = "ok",
                                !.openBase = IF path \in DOMAIN m.sd
                                             THEN Len(m.sd[path]) ELSE 0,
                                !.openSeq = m.sp.rxSequence,
                                !.storedMax = StoredRxMax(m.sd)]]

\* mutant: sync B also ends the wait for sync A
RxWaitSync1_EitherSync(m, byte) ==
    IF byte = SYNC_BYTE_1 \/ byte = SYNC_BYTE_2
    THEN Step(m, [m.sp EXCEPT !.rxState = "RX_WAIT_SYNC2"], "cont")
    ELSE Step(m, m.sp, "cont")

\* case RX_WAIT_SYNC1
RxWaitSync1(m, byte) ==
    IF byte = SYNC_BYTE_1
    THEN Step(m, [m.sp EXCEPT !.rxState = "RX_WAIT_SYNC2"], "cont")
    ELSE Step(m, m.sp, "cont")

\* mutant: a repeated sync A restarts the search
RxWaitSync2_Restart(m, byte) ==
    IF byte = SYNC_BYTE_2
    THEN Step(m, [m.sp EXCEPT !.rxState = "RX_READ_LENGTH", !.rxLengthPos = 0], "cont")
    ELSE Step(m, [m.sp EXCEPT !.rxState = "RX_WAIT_SYNC1"], "cont")

\* case RX_WAIT_SYNC2
RxWaitSync2(m, byte) ==
    IF byte = SYNC_BYTE_2
    THEN Step(m, [m.sp EXCEPT !.rxState = "RX_READ_LENGTH", !.rxLengthPos = 0], "cont")
    ELSE IF byte = SYNC_BYTE_1
    THEN Step(m, m.sp, "cont")
    ELSE Step(m, [m.sp EXCEPT !.rxState = "RX_WAIT_SYNC1"], "cont")

\* case RX_READ_LENGTH
RxReadLength(m, byte) ==
    LET s1 == [m.sp EXCEPT !.rxLengthBytes[m.sp.rxLengthPos + 1] = byte,
                           !.rxLengthPos = m.sp.rxLengthPos + 1]
    IN  IF s1.rxLengthPos >= 4
        THEN LET s2 == [s1 EXCEPT !.rxFileLength = LengthOfBytes(s1.rxLengthBytes)]
             IN  IF U32Gt(s2.rxFileLength, MAX_FILE_SIZE)
                 THEN Step(m, resetRxState(s2), "cont")
                 ELSE Step(m, [s2 EXCEPT !.rxState = "RX_READ_CHANNEL"], "cont")
        ELSE Step(m, s1, "cont")

\* mutant: a zero length is not rejected
RxReadChannel_NoZeroCheck(m, byte) ==
    LET s1 == [m.sp EXCEPT !.rxChannel = byte]
    IN  IF s1.rxChannel = CONTROL_CHANNEL /\ s1.rxFileLength = U32Zero
        THEN Step(m, [s1 EXCEPT !.rxState = "RX_READ_MSG_TYPE"], "cont")
        ELSE Step(m, [s1 EXCEPT !.rxState = "RX_READ_USERNAME_LEN"], "cont")

\* case RX_READ_CHANNEL
RxReadChannel(m, byte) ==
    LET s1 == [m.sp EXCEPT !.rxChannel = byte]
    IN  IF s1.rxChannel = CONTROL_CHANNEL /\ s1.rxFileLength = U32Zero
        THEN Step(m, [s1 EXCEPT !.rxState = "RX_READ_MSG_TYPE"], "cont")
        ELSE IF s1.rxFileLength = U32Zero
        THEN Step(m, resetRxState(s1), "cont")
        ELSE Step(m, [s1 EXCEPT !.rxState = "RX_READ_USERNAME_LEN"], "cont")

\* mutant: a ping carries a name like a join
RxReadMsgType_PingNamed(m, byte) ==
    LET s1 == [m.sp EXCEPT !.rxMsgType = byte]
    IN  IF byte = MSG_TYPE_JOIN \/ byte = MSG_TYPE_PART \/ byte = MSG_TYPE_PING
        THEN Step(m, [s1 EXCEPT !.rxState = "RX_READ_USERNAME_LEN"], "cont")
        ELSE Step(m, resetRxState(s1), "cont")

\* case RX_READ_MSG_TYPE
RxReadMsgType(m, byte) ==
    LET s1 == [m.sp EXCEPT !.rxMsgType = byte]
    IN  IF byte = MSG_TYPE_JOIN \/ byte = MSG_TYPE_PART
        THEN Step(m, [s1 EXCEPT !.rxState = "RX_READ_USERNAME_LEN"], "cont")
        ELSE Step(m, resetRxState(s1), "cont")

\* case RX_READ_USERNAME_LEN
RxReadUsernameLen(m, byte, ok) ==
    LET s1 == [m.sp EXCEPT !.rxUsernameLen =
                               IF byte > MAX_USERNAME_LEN THEN MAX_USERNAME_LEN ELSE byte,
                           !.rxUsernamePos = 0,
                           !.rxUsername[1] = 0]
    IN  IF s1.rxUsernameLen = 0
        THEN IF s1.rxChannel = CONTROL_CHANNEL
             THEN Step(m, resetRxState(s1), "cont")
             ELSE LET o == openRxFile([m EXCEPT !.sp = [s1 EXCEPT !.rxBytesReceived = 0]], ok)
                  IN  IF o.h.lastOpen = "fail"
                      THEN Step(o, resetRxState(o.sp), "cont")
                      ELSE Step(o, [o.sp EXCEPT !.rxState = "RX_READ_DATA"], "cont")
        ELSE Step(m, [s1 EXCEPT !.rxState = "RX_READ_USERNAME"], "cont")

\* case RX_READ_USERNAME
RxReadUsername(m, byte, ok) ==
    LET s1 == [m.sp EXCEPT !.rxUsername[m.sp.rxUsernamePos + 1] = byte,
                           !.rxUsernamePos = m.sp.rxUsernamePos + 1]
    IN  IF s1.rxUsernamePos >= s1.rxUsernameLen
        THEN LET s2 == [s1 EXCEPT !.rxUsername[s1.rxUsernameLen + 1] = 0]
             IN  IF s2.rxChannel = CONTROL_CHANNEL
                 THEN LET s3 == IF s2.rxMsgType = MSG_TYPE_JOIN
                                THEN addUser(s2, CStr(s2.rxUsername))
                                ELSE IF s2.rxMsgType = MSG_TYPE_PART
                                THEN removeUser(s2, CStr(s2.rxUsername))
                                ELSE s2
                      IN  Step(m, resetRxState(s3), "false")
                 ELSE LET o == openRxFile([m EXCEPT !.sp = [s2 EXCEPT !.rxBytesReceived = 0]], ok)
                      IN  IF o.h.lastOpen = "fail"
                          THEN Step(o, [o.sp EXCEPT !.rxState = "RX_DISCARD_DATA"], "cont")
                          ELSE Step(o, [o.sp EXCEPT !.rxState = "RX_READ_DATA"], "cont")
        ELSE Step(m, s1, "cont")

\* mutant: the file ends one byte late
RxReadData_OneMore(m, byte) ==
    LET store == [m.sd EXCEPT ![m.sp.rxFile] = Append(@, byte)]
        s1 == [m.sp EXCEPT !.rxBytesReceived = m.sp.rxBytesReceived + 1]
    IN  IF s1.rxBytesReceived > LengthValue(s1)
        THEN [sp |-> resetRxState([s1 EXCEPT !.rxFile = NoFile, !.rxFileReady = TRUE]),
              sd |-> store,
              h |-> [m.h EXCEPT !.completed = m.h.completed + 1],
              ret |-> "true"]
        ELSE [sp |-> s1, sd |-> store, h |-> m.h, ret |-> "cont"]

\* case RX_READ_DATA
RxReadData(m, byte) ==
    LET store == [m.sd EXCEPT ![m.sp.rxFile] = Append(@, byte)]
        s1 == [m.sp EXCEPT !.rxBytesReceived = m.sp.rxBytesReceived + 1]
    IN  IF s1.rxBytesReceived >= LengthValue(s1)
        THEN [sp |-> resetRxState([s1 EXCEPT !.rxFile = NoFile, !.rxFileReady = TRUE]),
              sd |-> store,
              h |-> [m.h EXCEPT !.completed = m.h.completed + 1],
              ret |-> "true"]
        ELSE [sp |-> s1, sd |-> store, h |-> m.h, ret |-> "cont"]

\* case RX_DISCARD_DATA
RxDiscardData(m, byte) ==
    LET s1 == [m.sp EXCEPT !.rxBytesReceived = m.sp.rxBytesReceived + 1]
    IN  IF s1.rxBytesReceived >= LengthValue(s1)
        THEN Step(m, resetRxState(s1), "cont")
        ELSE Step(m, s1, "cont")

\* mutant: only a byte read in WaitSync1 counts as activity
TouchActivity_SyncOnly(s, t) ==
    IF s.rxState = "RX_WAIT_SYNC1" THEN [s EXCEPT !.lastActivityTime = t] ELSE s

\* lastActivityTime = millis(), done for every byte read
TouchActivity(s, t) == [s EXCEPT !.lastActivityTime = t]

\* the body of the while loop: read one byte, switch on rxState
RxByte(m, byte, ok, t) ==
    LET m0 == [m EXCEPT !.sp = TouchActivity(m.sp, t),
                        !.h = [m.h EXCEPT !.pre = m.sp, !.preSd = m.sd,
                                          !.lastByte = byte]]
        st == m.sp.rxState
    IN  CASE st = "RX_WAIT_SYNC1"        -> RxWaitSync1(m0, byte)
          [] st = "RX_WAIT_SYNC2"        -> RxWaitSync2(m0, byte)
          [] st = "RX_READ_LENGTH"       -> RxReadLength(m0, byte)
          [] st = "RX_READ_CHANNEL"      -> RxReadChannel(m0, byte)
          [] st = "RX_READ_MSG_TYPE"     -> RxReadMsgType(m0, byte)
          [] st = "RX_READ_USERNAME_LEN" -> RxReadUsernameLen(m0, byte, ok)
          [] st = "RX_READ_USERNAME"     -> RxReadUsername(m0, byte, ok)
          [] st = "RX_READ_DATA"         -> RxReadData(m0, byte)
          [] st = "RX_DISCARD_DATA"      -> RxDiscardData(m0, byte)

\* while (serial->available()) { ... }: the machine, the bytes left in the
\* serial buffer, and the value returned
RECURSIVE RxLoop(_, _, _, _)
RxLoop(m, buf, ok, t) ==
    IF buf = <<>>
    THEN [m |-> m, rest |-> buf, ret |-> FALSE]
    ELSE LET r == RxByte(m, Head(buf), ok, t)
             m1 == [sp |-> r.sp, sd |-> r.sd, h |-> r.h]
         IN  IF r.ret = "true" THEN [m |-> m1, rest |-> Tail(buf), ret |-> TRUE]
             ELSE IF r.ret = "false" THEN [m |-> m1, rest |-> Tail(buf), ret |-> FALSE]
             ELSE RxLoop(m1, Tail(buf), ok, t)

\* mutant: every call starts the search for a frame anew
processIncoming_FromSync(m, buf, ok, t) ==
    IF ~m.sp.serial THEN [m |-> m, rest |-> buf, ret |-> FALSE]
    ELSE RxLoop([m EXCEPT !.sp = resetRxState(m.sp)], buf, ok, t)

\* SerialProtocol::processIncoming()
processIncoming(m, buf, ok, t) ==
    IF ~m.sp.serial THEN [m |-> m, rest |-> buf, ret |-> FALSE]
    ELSE RxLoop(m, buf, ok, t)

\* SerialProtocol::begin(serialPort)
begin(s, serialPort, t) ==
    IF ~serialPort THEN s
    ELSE [resetRxState([s EXCEPT !.serial = TRUE]) EXCEPT !.lastActivityTime = t]

-----------------------------------------------------------------------------
(* The bridge: what it puts on the wire *)

Channels == {1}                        \* selector values of emitted frames
Names == {<<>>, <<65>>}                \* "", "A"
Trails == {<<>>, <<SYNC_BYTE_1>>}      \* what follows a frame at once

\* n payload bytes, all different, so that their order shows
Payload(n) == [i \in 1..n |-> 6 + i]
Payloads == {Payload(n) : n \in 1..MaxPayload}

LE4(n) == <<n % 256, (n \div 256) % 256, (n \div 65536) % 256, (n \div 16777216) % 256>>

\* [SYNC:2][LENGTH:4][CHANNEL:1][USERNAME_LEN:1][USERNAME][data]
AudioFrame(ch, name, payload) ==
    <<SYNC_BYTE_1, SYNC_BYTE_2>> \o LE4(Len(payload)) \o <<ch, Len(name)>> \o name \o payload

\* [SYNC:2][LENGTH:4=0][CHANNEL:0xFF][MSG_TYPE:1][USERNAME_LEN:1][USERNAME]
ControlFrame(type, name) ==
    <<SYNC_BYTE_1, SYNC_BYTE_2, 0, 0, 0, 0, CONTROL_CHANNEL, type, Len(name)>> \o name

\* length fields above MAX_FILE_SIZE: 0xFFFFFFFF, 65537
CorruptLengths == {<<255, 255, 255, 255>>, <<1, 0, 1, 0>>}

CorruptLengthFrame(len) == <<SYNC_BYTE_1, SYNC_BYTE_2>> \o len

ZeroLengthFrame(ch) == <<SYNC_BYTE_1, SYNC_BYTE_2, 0, 0, 0, 0, ch>>

-----------------------------------------------------------------------------
(* PlaybackEngine: constants, strings and file reads *)

\* a local variable: v is computed once, then F is applied to its value
With(v, F(_)) == CHOOSE r \in {F(x) : x \in {v}} : TRUE

OPUS_FRAME_MS == 20
OPUS_FRAME_SAMPLES == 320
OPUS_MAX_PACKET_SIZE == 256
AUDIO_BLOCK_SAMPLES == 128
RESAMPLE_OUTPUT_SAMPLES == 882
MAX_FILES_PER_CHANNEL == 100
NUM_CHANNELS == 5
LOOP_LIMIT == 10
HEADER_SIZE == 6

\* 'O' 'P' 'U' 'S'
OPUS_MAGIC == <<79, 80, 85, 83>>
\* "Unknown"
UNKNOWN == <<85, 110, 107, 110, 111, 119, 110>>
SLASH == 47
DOT == 46

\* Arduino String operator< : byte-wise lexicographic order
StrLess(a, b) ==
    LET D == {i \in 1..(IF Len(a) < Len(b) THEN Len(a) ELSE Len(b)) : a[i] # b[i]}
    IN  IF D = {} THEN Len(a) < Len(b)
        ELSE a[CHOOSE i \in D : \A j \in D : i <= j] < b[CHOOSE i \in D : \A j \in D : i <= j]

\* String::endsWith
EndsWith(s, suffix) ==
    /\ Len(suffix) <= Len(s)
    /\ SubSeq(s, Len(s) - Len(suffix) + 1, Len(s)) = suffix

\* String::lastIndexOf(char): 0-based, -1 when absent
LastIndexOf(s, c) ==
    LET I == {i \in 1..Len(s) : s[i] = c}
    IN  IF I = {} THEN -1 ELSE (CHOOSE i \in I : \A j \in I : j <= i) - 1

\* String::indexOf(String): 0-based, -1 when absent
IndexOfStr(s, sub) ==
    LET I == {i \in 1..(Len(s) - Len(sub) + 1) : SubSeq(s, i, i + Len(sub) - 1) = sub}
    IN  IF I = {} THEN -1 ELSE (CHOOSE i \in I : \A j \in I : i <= j) - 1

\* String::substring(from, to): 0-based, to exclusive
Substring(s, from, to) == SubSeq(s, from + 1, to)

\* PlaybackEngine::extractSender(filename)
extractSender(filename) ==
    With(LastIndexOf(filename, SLASH), LAMBDA lastSlash :
      With(IF lastSlash >= 0 THEN Substring(filename, lastSlash + 1, Len(filename))
           ELSE filename, LAMBDA name :
        With(<<IndexOfStr(name, FROM_), LastIndexOf(name, DOT)>>, LAMBDA p :
          IF p[1] > 0 /\ p[2] > p[1]
          THEN Substring(name, p[1] + 6, p[2])
          ELSE UNKNOWN)))

\* "/RX/CH" + String(channel + 1)
\* mutant: the directory is named by the channel itself
DirPathOf_ZeroBased(channel) == RX_DIR_PREFIX \o Dec(channel)

DirPathOf(channel) == RX_DIR_PREFIX \o Dec(channel + 1)

\* a File object: closed, or open on a path at a read position
ClosedFile == [open |-> FALSE, path |-> <<>>, pos |-> 0]

\* SD.open(path, FILE_READ)
SdOpenRead(store, path) ==
    IF path \in DOMAIN store THEN [open |-> TRUE, path |-> path, pos |-> 0]
    ELSE ClosedFile

\* the length of a file content, and its i-th byte (from 1)
ContentLen(c) == IF c # <<>> /\ c[Len(c)] < 0 THEN Len(c) - 1 - c[Len(c)] ELSE Len(c)

ByteAt(c, i) == IF c[Len(c)] < 0 /\ i >= Len(c) THEN 0 ELSE c[i]

FileSize(store, f) == ContentLen(store[f.path])

\* File::available()
FileAvailable(store, f) == f.open /\ f.pos < FileSize(store, f)

\* File::read(buf, n): the bytes read (at most n) and the file after it
FileRead(store, f, n) ==
    With(IF f.pos + n > FileSize(store, f) THEN FileSize(store, f) ELSE f.pos + n,
         LAMBDA last :
           [data |-> [j \in 1..(last - f.pos) |-> ByteAt(store[f.path], f.pos + j)],
            f |-> [f EXCEPT !.pos = last]])

\* File::seek(pos): fails beyond the end of the file
FileSeek(store, f, pos) ==
    IF pos > FileSize(store, f) THEN [ok |-> FALSE, f |-> f]
    ELSE [ok |-> TRUE, f |-> [f EXCEPT !.pos = pos]]

\* a uint16_t read from two bytes, little-endian
LE16(b) == b[1] + 256 * b[2]

\* opus_decode() followed by upsample(): the samples put in outputBuffer.
\* A packet whose first byte is 0 stands for one the decoder rejects; any
\* other packet is one 20 ms frame, 320 samples, upsampled to 882.
OpusDecode(packet) ==
    IF packet[1] = 0 THEN -1
    ELSE LET n == (OPUS_FRAME_SAMPLES * 441) \div 160
         IN  IF n > RESAMPLE_OUTPUT_SAMPLES THEN RESAMPLE_OUTPUT_SAMPLES ELSE n

-----------------------------------------------------------------------------
(* Container files on the card *)

\* "OPUS" + version 1.0
FileHeader == OPUS_MAGIC \o <<1, 0>>

\* a packet record: 2-byte little-endian size, then the packet
GoodPacket == <<2, 0, 9, 9>>
BadPacket == <<2, 0, 0, 9>>

RECURSIVE Repeat(_, _)
Repeat(s, n) == IF n = 0 THEN <<>> ELSE s \o Repeat(s, n - 1)

\* a container as the recorder writes it, with n packets
ValidFile(n) == FileHeader \o Repeat(GoodPacket, n)

ValidImages == {ValidFile(n) : n \in 0..MaxPackets}

\* wrong magic; header cut short; a packet length of 0; a packet length over
\* OPUS_MAX_PACKET_SIZE; a packet the decoder rejects; a packet cut short
BadMagic == <<88, 80, 85, 83, 1, 0>> \o GoodPacket
ShortHeader == <<79, 80, 85>>
ZeroSize == FileHeader \o GoodPacket \o <<0, 0>> \o GoodPacket
OverSize == FileHeader \o <<1, 1>> \o GoodPacket
Undecodable == FileHeader \o GoodPacket \o BadPacket \o GoodPacket
Truncated == FileHeader \o GoodPacket \o <<2, 0, 9>>

FaultyImages == {BadMagic, ShortHeader, ZeroSize, OverSize, Undecodable, Truncated}

\* the packets of a well-formed, decodable packet stream; -1 otherwise
RECURSIVE StreamPackets(_, _)
StreamPackets(bytes, n) ==
    With(bytes, LAMBDA data :
      IF data = <<>> THEN n
      ELSE IF Len(data) < 2 THEN -1
      ELSE With(LE16(data), LAMBDA size :
             IF size = 0 \/ size > OPUS_MAX_PACKET_SIZE \/ Len(data) < 2 + size THEN -1
             ELSE IF OpusDecode(SubSeq(data, 3, 2 + size)) <= 0 THEN -1
             ELSE StreamPackets(SubSeq(data, 3 + size, Len(data)), n + 1)))

\* the number of packets of a valid container; -1 for any other content
ValidPackets(bytes) ==
    IF Len(bytes) >= HEADER_SIZE /\ SubSeq(bytes, 1, 4) = OPUS_MAGIC
    THEN StreamPackets(SubSeq(bytes, HEADER_SIZE + 1, Len(bytes)), 0)
    ELSE -1

\* the i-th received file of a channel directory; odd ones name a sender
QueuePath(channel, i) ==
    DirPathOf(channel) \o MSG_ \o PadLeft(Dec(i), 5)
        \o (IF i % 2 = 1 THEN FROM_ \o <<65>> ELSE <<>>) \o DOT_OPUS

\* "/RX/CH1/LOG.txt"
OtherFile == DirPathOf(0) \o <<SLASH, 76, 79, 71, DOT, 116, 120, 116>>

NoFin == [path |-> <<>>, decodes |-> 0, pos |-> 0, valid |-> -1]

NoLoad == [channel |-> -1, ret |-> FALSE, replaced |-> FALSE]

\* history of the block given to the sink last: the index of its first sample
\* in the output buffer, the samples buffered from there on, the samples
\* copied and the zeros after them
NoBlock == [from |-> 0, left |-> 0, n |-> 0, pad |-> 0]

Ph0 == [removed |-> {}, removedOrder |-> <<>>, played |-> {}, order |-> <<>>,
        abandoned |-> {}, decodes |-> 0, fin |-> NoFin, stage |-> "new",
        load |-> NoLoad, call |-> "none", loops |-> 0, room |-> 0, pushed |-> 0,
        block |-> NoBlock, next |-> 0, dropped |-> 0, tries |-> 0]
-----------------------------------------------------------------------------
(* PlaybackEngine: the object and its methods.  A machine q is [pb, sd, ph]: *)
(* the object, the storage and the history.                                  *)

PlaybackEngineCtor ==
    [state |-> "PLAYBACK_IDLE", currentChannel |-> 0,
     fileList |-> <<>>, fileCount |-> 0, currentFileIndex |-> 0,
     currentFile |-> ClosedFile, currentSender |-> <<>>,
     playbackStartTime |-> U32Zero, totalPackets |-> 0, packetsPlayed |-> 0,
     fileHeaderRead |-> FALSE, outputBufferPos |-> 0, outputBufferCount |-> 0]

\* PlaybackEngine::cleanupFileList()
cleanupFileList(e) == [e EXCEPT !.fileList = <<>>, !.fileCount = 0, !.currentFileIndex = 0]

\* the directories the card holds: one per channel
DirExists(dirPath) == \E c \in 1..NUM_CHANNELS : dirPath = RX_DIR_PREFIX \o Dec(c)

\* the files directly in a directory
DirEntries(store, dirPath) ==
    {p \in DOMAIN store :
        /\ Len(p) > Len(dirPath) + 1
        /\ SubSeq(p, 1, Len(dirPath) + 1) = dirPath \o <<SLASH>>
        /\ LastIndexOf(p, SLASH) = Len(dirPath)}

\* the orders in which dir.openNextFile() may list a directory
DirOrders(store, dirPath) ==
    LET E == DirEntries(store, dirPath)
        n == Cardinality(E)
    IN  {o \in [1..n -> E] : \A i, j \in 1..n : o[i] = o[j] => i = j}

\* the while loop of loadChannelQueue over the entries a..b of the listing,
\* one after the other: an .opus entry is taken; once the list is full the
\* loop is left, so that no later entry changes it
RECURSIVE CollectOpus(_, _, _, _)
CollectOpus(order, tempList, a, b) ==
    With(tempList, LAMBDA t :
      IF a > b THEN t
      ELSE IF a = b
      THEN IF Len(t) < MAX_FILES_PER_CHANNEL /\ EndsWith(order[a], DOT_OPUS)
           THEN Append(t, order[a])
           ELSE t
      ELSE CollectOpus(order, CollectOpus(order, t, a, (a + b) \div 2),
                       (a + b) \div 2 + 1, b))

Swap(l, i, j) == [l EXCEPT ![i] = l[j], ![j] = l[i]]

\* mutant: no entry is moved
SortInner_NoSwap(list, i, a, b) == list

\* the inner loop of the sort for j = a..b, one after the other
RECURSIVE SortInner(_, _, _, _)
SortInner(list, i, a, b) ==
    With(list, LAMBDA l :
      IF a > b THEN l
      ELSE IF a = b THEN (IF StrLess(l[a], l[i]) THEN Swap(l, i, a) ELSE l)
      ELSE SortInner(SortInner(l, i, a, (a + b) \div 2), i, (a + b) \div 2 + 1, b))

\* the outer loop of the sort for i = a..b, one after the other
RECURSIVE SortOuter(_, _, _)
SortOuter(list, a, b) ==
    With(list, LAMBDA l :
      IF a > b THEN l
      ELSE IF a = b THEN SortInner(l, a, a + 1, Len(l))
      ELSE SortOuter(SortOuter(l, a, (a + b) \div 2), (a + b) \div 2 + 1, b))

\* PlaybackEngine::loadChannelQueue(channel), the directory listed in `order`
loadChannelQueue(e, channel, order) ==
    With([cleanupFileList(e) EXCEPT !.currentChannel = channel], LAMBDA e1 :
      IF ~DirExists(DirPathOf(channel)) THEN [e |-> e1, ret |-> FALSE]
      ELSE With(CollectOpus(order, <<>>, 1, Len(order)), LAMBDA tempList :
             IF tempList = <<>> THEN [e |-> e1, ret |-> TRUE]
             ELSE With(SortOuter(tempList, 1, Len(tempList) - 1), LAMBDA sorted :
                    [e |-> [e1 EXCEPT !.fileList = sorted, !.fileCount = Len(sorted),
                                      !.currentFileIndex = 0],
                     ret |-> TRUE])))

\* the counting loop of openNextFile: packets counted from the position of f
\* mutant: the packets taken from the size of the file, four bytes each
CountPackets_BySize(store, f, n) == n + (FileSize(store, f) - f.pos) \div 4

RECURSIVE CountPackets(_, _, _)
CountPackets(store, f, n) ==
    IF ~FileAvailable(store, f) THEN n
    ELSE With(FileRead(store, f, 2), LAMBDA r :
           IF Len(r.data) # 2 THEN n
           ELSE IF LE16(r.data) = 0 \/ LE16(r.data) > OPUS_MAX_PACKET_SIZE THEN n
           ELSE With(FileSeek(store, r.f, r.f.pos + LE16(r.data)), LAMBDA s :
                  IF ~s.ok THEN n ELSE CountPackets(store, s.f, n + 1)))

\* openNextFile() once the file is open: read and check the header, then
\* reset the counters, take the sender and count the packets
OpenedFile(q, path, f) ==
    With(FileRead(q.sd, f, HEADER_SIZE), LAMBDA r :
      IF Len(r.data) # HEADER_SIZE \/ SubSeq(r.data, 1, 4) # OPUS_MAGIC
      THEN [q |-> [q EXCEPT !.pb.currentFile = ClosedFile,
                            !.ph.abandoned = q.ph.abandoned \union {path}],
            ok |-> FALSE]
      ELSE [q |-> [q EXCEPT !.pb = [q.pb EXCEPT !.currentFile = r.f,
                                                !.fileHeaderRead = TRUE,
                                                !.packetsPlayed = 0,
                                                !.outputBufferPos = 0,
                                                !.outputBufferCount = 0,
                                                !.currentSender = extractSender(path),
                                                !.totalPackets = CountPackets(q.sd, r.f, 0)],
                            !.ph.decodes = 0,
                            !.ph.next = 0],
            ok |-> TRUE])

\* PlaybackEngine::openNextFile()
openNextFile(qq) ==
    With(qq, LAMBDA q :
      IF q.pb.currentFileIndex >= q.pb.fileCount THEN [q |-> q, ok |-> FALSE]
      ELSE With(q.pb.fileList[q.pb.currentFileIndex + 1], LAMBDA path :
             With(SdOpenRead(q.sd, path), LAMBDA f :
               IF ~f.open THEN [q |-> [q EXCEPT !.pb.currentFile = ClosedFile], ok |-> FALSE]
               ELSE OpenedFile(q, path, f))))

\* PlaybackEngine::startPlayback(playQueue)
startPlayback(qq, playQueue, t) ==
    With(qq, LAMBDA q :
      IF ~playQueue THEN [q |-> q, ok |-> FALSE]
      ELSE IF q.pb.fileCount = 0 THEN [q |-> q, ok |-> FALSE]
      ELSE With(openNextFile(q), LAMBDA o :
             IF ~o.ok THEN [q |-> o.q, ok |-> FALSE]
             ELSE [q |-> [o.q EXCEPT !.pb.state = "PLAYBACK_PLAYING",
                                     !.pb.playbackStartTime = t],
                   ok |-> TRUE]))

\* PlaybackEngine::stopPlayback()
stopPlayback(e) ==
    [e EXCEPT !.currentFile = ClosedFile, !.state = "PLAYBACK_IDLE",
              !.outputBufferPos = 0, !.outputBufferCount = 0]

\* mutant: the position is the time since playbackStartTime (its low half)
getPlaybackPosition_SinceStart(e) ==
    IF e.state \in {"PLAYBACK_PLAYING", "PLAYBACK_PAUSED"}
    THEN U32Sub(now, e.playbackStartTime)[2]
    ELSE 0

\* PlaybackEngine::getPlaybackPosition(), milliseconds
getPlaybackPosition(e) ==
    IF e.state = "PLAYBACK_PLAYING" THEN e.packetsPlayed * OPUS_FRAME_MS
    ELSE IF e.state = "PLAYBACK_PAUSED" THEN e.packetsPlayed * OPUS_FRAME_MS
    ELSE 0

\* mutant: pausing is accepted in every state
pausePlayback_AnyState(e) == [e |-> [e EXCEPT !.state = "PLAYBACK_PAUSED"], ok |-> TRUE]

\* PlaybackEngine::pausePlayback()
pausePlayback(e) ==
    IF e.state = "PLAYBACK_PLAYING"
    THEN [e |-> [e EXCEPT !.state = "PLAYBACK_PAUSED"], ok |-> TRUE]
    ELSE [e |-> e, ok |-> FALSE]

\* PlaybackEngine::resumePlayback(playQueue)
resumePlayback(e, t) ==
    IF e.state = "PLAYBACK_PAUSED"
    THEN [e |-> [e EXCEPT !.state = "PLAYBACK_PLAYING",
                          !.playbackStartTime =
                              U32Sub(t, U32OfNat(getPlaybackPosition(e)))],
          ok |-> TRUE]
    ELSE [e |-> e, ok |-> FALSE]

\* SD.remove(path)
SdRemove(store, path) == [p \in DOMAIN store \ {path} |-> store[p]]

\* PlaybackEngine::deleteCurrentFile()
deleteCurrentFile(qq) ==
    With(qq, LAMBDA q :
      IF q.pb.currentFileIndex < q.pb.fileCount /\ q.pb.fileList # <<>>
      THEN With(q.pb.fileList[q.pb.currentFileIndex + 1], LAMBDA path :
             [q EXCEPT !.pb.currentFile = ClosedFile,
                       !.sd = SdRemove(q.sd, path),
                       !.ph = [q.ph EXCEPT
                                  !.removed = q.ph.removed \union {path},
                                  !.removedOrder =
                                      IF path \in q.ph.removed THEN q.ph.removedOrder
                                      ELSE Append(q.ph.removedOrder, path)]])
      ELSE q)

\* skipToNext() after the current file is dealt with: move to the next
\* queued file and open it, or stop
AdvanceQueue(qq, t) ==
    With([qq EXCEPT !.pb.currentFileIndex = (qq.pb.currentFileIndex + 1) % 256], LAMBDA q :
      IF q.pb.currentFileIndex >= q.pb.fileCount
      THEN [q |-> [q EXCEPT !.pb = stopPlayback(q.pb)], ok |-> FALSE]
      ELSE With(openNextFile(q), LAMBDA o :
             IF ~o.ok THEN [q |-> [o.q EXCEPT !.pb = stopPlayback(o.q.pb)], ok |-> FALSE]
             ELSE [q |-> [o.q EXCEPT !.pb.playbackStartTime = t], ok |-> TRUE]))

\* mutant: the finished file is closed but left on the card
skipToNext_KeepFile(q, t) ==
    With([q EXCEPT !.pb.currentFile = ClosedFile], LAMBDA q1 : AdvanceQueue(q1, t))

\* PlaybackEngine::skipToNext()
skipToNext(q, t) ==
    With(deleteCurrentFile(q), LAMBDA q1 : AdvanceQueue(q1, t))

\* PlaybackEngine::readPacket(packet, packetSize)
readPacket(store, ff) ==
    With(ff, LAMBDA f :
      IF ~f.open \/ ~FileAvailable(store, f) THEN [ok |-> FALSE, f |-> f, packet |-> <<>>]
      ELSE With(FileRead(store, f, 2), LAMBDA r :
             IF Len(r.data) # 2 THEN [ok |-> FALSE, f |-> r.f, packet |-> <<>>]
             ELSE IF LE16(r.data) = 0 \/ LE16(r.data) > OPUS_MAX_PACKET_SIZE
                  THEN [ok |-> FALSE, f |-> r.f, packet |-> <<>>]
             ELSE With(FileRead(store, r.f, LE16(r.data)), LAMBDA d :
                    IF Len(d.data) # LE16(r.data)
                    THEN [ok |-> FALSE, f |-> d.f, packet |-> <<>>]
                    ELSE [ok |-> TRUE, f |-> d.f, packet |-> d.data])))

\* history: the samples in the output buffer that no block has taken
Unsent(q) ==
    IF q.ph.next < 0 \/ q.ph.next > q.pb.outputBufferCount THEN q.pb.outputBufferCount
    ELSE q.pb.outputBufferCount - q.ph.next

\* mutant: a packet is counted as played before it is read and decoded
decodeAndBuffer_CountFirst(qq) ==
    With(qq, LAMBDA q :
      With(readPacket(q.sd, q.pb.currentFile), LAMBDA r :
        With([q EXCEPT !.pb.currentFile = r.f,
                       !.pb.packetsPlayed = q.pb.packetsPlayed + 1], LAMBDA q1 :
          IF ~r.ok THEN [q |-> q1, ok |-> FALSE]
          ELSE IF OpusDecode(r.packet) <= 0 THEN [q |-> q1, ok |-> FALSE]
          ELSE [q |-> [q1 EXCEPT !.pb.outputBufferCount = OpusDecode(r.packet),
                                 !.pb.outputBufferPos = 0,
                                 !.ph.decodes = q.ph.decodes + 1],
                ok |-> TRUE])))

\* PlaybackEngine::decodeAndBuffer().  History: one more try of the call, and
\* on success the samples the new packet overwrites before they went out.
decodeAndBuffer(qq) ==
    With(qq, LAMBDA q :
      With(readPacket(q.sd, q.pb.currentFile), LAMBDA r :
        With([q EXCEPT !.pb.currentFile = r.f,
                       !.ph.tries = q.ph.tries + 1], LAMBDA q1 :
          IF ~r.ok THEN [q |-> q1, ok |-> FALSE]
          ELSE IF OpusDecode(r.packet) <= 0 THEN [q |-> q1, ok |-> FALSE]
          ELSE [q |-> [q1 EXCEPT !.pb.outputBufferCount = OpusDecode(r.packet),
                                 !.pb.outputBufferPos = 0,
                                 !.pb.packetsPlayed = q.pb.packetsPlayed + 1,
                                 !.ph.decodes = q.ph.decodes + 1,
                                 !.ph.dropped = q.ph.dropped + Unsent(q),
                                 !.ph.next = 0],
                ok |-> TRUE])))

\* history: the open file has come to its end of data or to a failure
NoteFinished(qq) ==
    With(qq, LAMBDA q :
      IF ~q.pb.currentFile.open THEN q
      ELSE With(q.pb.currentFile.path, LAMBDA path :
             [q EXCEPT !.ph = [q.ph EXCEPT
                 !.played = q.ph.played \union {path},
                 !.order = IF path \in q.ph.played THEN q.ph.order
                           ELSE Append(q.ph.order, path),
                 !.dropped = q.ph.dropped + Unsent(q),
                 !.fin = [path |-> path, decodes |-> q.ph.decodes,
                          pos |-> getPlaybackPosition(q.pb),
                          valid |-> ValidPackets(q.sd[path])]]]))

\* history: a block of n samples from index `from` of the output buffer and
\* pad zeros has gone to the sink; next is the index after the samples sent
\* so far, -1 once a block did not start there
NoteBlock(hist, from, left, n, pad) ==
    [hist EXCEPT !.block = [from |-> from, left |-> left, n |-> n, pad |-> pad],
                 !.next = IF hist.next = from THEN from + n ELSE -1]

\* mutant: a whole block is copied whatever is left
PushBlock_WholeBlock(q) ==
    [q EXCEPT !.pb.outputBufferPos = q.pb.outputBufferPos + AUDIO_BLOCK_SAMPLES,
              !.ph = NoteBlock(q.ph, q.pb.outputBufferPos,
                               q.pb.outputBufferCount - q.pb.outputBufferPos,
                               AUDIO_BLOCK_SAMPLES, 0)]

\* one block of buffered samples goes to the sink: toCopy samples from
\* outputBufferPos on, then zeros up to AUDIO_BLOCK_SAMPLES
PushBlock(q) ==
    LET left == q.pb.outputBufferCount - q.pb.outputBufferPos
        toCopy == IF AUDIO_BLOCK_SAMPLES < left THEN AUDIO_BLOCK_SAMPLES ELSE left
    IN  [q EXCEPT !.pb.outputBufferPos = q.pb.outputBufferPos + toCopy,
                  !.ph = NoteBlock(q.ph, q.pb.outputBufferPos, left, toCopy,
                                   IF toCopy < AUDIO_BLOCK_SAMPLES
                                   THEN AUDIO_BLOCK_SAMPLES - toCopy ELSE 0)]

\* mutant: the loop goes on as long as the sink takes more
FeedLoopGoesOn_NoLimit(pushed, room, loopCount) == pushed < room

\* playQueue->available() && loopCount < 10
FeedLoopGoesOn(pushed, room, loopCount) == pushed < room /\ loopCount < LOOP_LIMIT

\* the while loop of processPlayback: loopCount iterations done, `pushed`
\* blocks given to the sink, which had `room` free blocks at the call
RECURSIVE PlayLoop(_, _, _, _, _)
PlayLoop(qq, loopCount, pushed, room, t) ==
    With(<<qq, loopCount, pushed>>, LAMBDA a :
      IF ~FeedLoopGoesOn(a[3], room, a[2]) THEN [q |-> a[1], ret |-> TRUE, loops |-> a[2], pushed |-> a[3]]
      ELSE IF a[1].pb.outputBufferPos < a[1].pb.outputBufferCount
      THEN PlayLoop(PushBlock(a[1]), a[2] + 1, a[3] + 1, room, t)
      ELSE With(decodeAndBuffer(a[1]), LAMBDA d :
             IF d.ok THEN PlayLoop(d.q, a[2] + 1, a[3], room, t)
             ELSE With(skipToNext(NoteFinished(d.q), t), LAMBDA s :
                    IF s.ok THEN PlayLoop(s.q, a[2] + 1, a[3], room, t)
                    ELSE [q |-> s.q, ret |-> FALSE, loops |-> a[2] + 1, pushed |-> a[3]])))

\* PlaybackEngine::processPlayback(playQueue)
processPlayback(q, playQueue, room, t) ==
    IF q.pb.state # "PLAYBACK_PLAYING" \/ ~playQueue
    THEN [q |-> [q EXCEPT !.ph.tries = 0], ret |-> FALSE, loops |-> 0, pushed |-> 0]
    ELSE PlayLoop([q EXCEPT !.ph.tries = 0], 0, 0, room, t)

-----------------------------------------------------------------------------
(* RecordingEngine and the encoding half of OpusCodec                        *)

recOnly == <<rec, rg, cardIn, free, dirs>>

RESAMPLE_INPUT_SAMPLES == 883
ACCUMULATOR_SIZE == 1024
FILENAME_SIZE == 32
\* "/TX"
TX_DIR == <<47, 84, 88>>
\* "MSG_"
MSG_PREFIX == <<77, 83, 71, 95>>
\* "_CH"
UNDER_CH == <<95, 67, 72>>
\* room of a card that does not fill up
CardRoom == 100

Min(a, b) == IF a < b THEN a ELSE b

\* OpusCodec::OpusCodec(): the fields of the encoding path
OpusCodecCtor ==
    [encoder |-> FALSE, accumulatorCount |-> 0, encodedPacket |-> <<>>,
     encodedPacketSize |-> 0, packetReady |-> FALSE, encodedPacketCount |-> 0,
     lastError |-> 0]

\* OpusCodec::begin(): created tells whether opus_encoder_create() and
\* opus_decoder_create() both succeed
OpusCodec_begin(c, created) ==
    IF created THEN [c |-> [c EXCEPT !.encoder = TRUE], ok |-> TRUE]
    ELSE [c |-> [c EXCEPT !.encoder = FALSE, !.lastError = -1], ok |-> FALSE]

\* opus_encode(): its return value.  The outcome of one call is a packet
\* (its bytes, up to OPUS_MAX_PACKET_SIZE), or <<code>> for a negative
\* error code.
OpusEncode(outcome) ==
    IF outcome # <<>> /\ outcome[1] < 0 THEN outcome[1] ELSE Len(outcome)

\* OpusCodec::encodeFrame()
encodeFrame(c, outcome) ==
    With(OpusEncode(outcome), LAMBDA bytes :
      IF bytes < 0 THEN [c |-> [c EXCEPT !.lastError = bytes], ok |-> FALSE]
      ELSE [c |-> [c EXCEPT !.encodedPacket = outcome,
                            !.encodedPacketSize = bytes,
                            !.packetReady = TRUE,
                            !.encodedPacketCount = @ + 1],
            ok |-> TRUE])

\* the while loop of addSamples: one frame per RESAMPLE_INPUT_SAMPLES
\* samples; enc holds the outcomes of the opus_encode() calls to come
RECURSIVE EncodeLoop(_, _, _, _)
EncodeLoop(cc, enc, packetsEncoded, failed) ==
    With(cc, LAMBDA c :
      IF c.accumulatorCount < RESAMPLE_INPUT_SAMPLES
      THEN [c |-> c, result |-> packetsEncoded, failed |-> failed, enc |-> enc]
      ELSE With(encodeFrame(c, Head(enc)), LAMBDA r :
             EncodeLoop([r.c EXCEPT !.accumulatorCount = @ - RESAMPLE_INPUT_SAMPLES],
                        Tail(enc),
                        IF r.ok THEN packetsEncoded + 1 ELSE packetsEncoded,
                        IF r.ok THEN failed ELSE failed + 1)))

\* mutant: the accumulator holds one frame and no more
addSamples_OneFrame(c, count, enc) ==
    IF ~c.encoder THEN [c |-> c, result |-> -1, failed |-> 0, enc |-> enc]
    ELSE EncodeLoop([c EXCEPT !.accumulatorCount =
                         @ + Min(count, RESAMPLE_INPUT_SAMPLES - c.accumulatorCount)],
                    enc, 0, 0)

\* OpusCodec::addSamples(samples, count)
addSamples(c, count, enc) ==
    IF ~c.encoder THEN [c |-> c, result |-> -1, failed |-> 0, enc |-> enc]
    ELSE EncodeLoop([c EXCEPT !.accumulatorCount =
                         @ + Min(count, ACCUMULATOR_SIZE - c.accumulatorCount)],
                    enc, 0, 0)

\* OpusCodec::getEncodedPacket(outputPacket, maxSize), the packet kept
getEncodedPacket_KeepReady(c, maxSize) ==
    IF ~c.packetReady \/ c.encodedPacketSize = 0
    THEN [c |-> c, size |-> 0, packet |-> <<>>]
    ELSE IF maxSize < c.encodedPacketSize
    THEN [c |-> c, size |-> -1, packet |-> <<>>]
    ELSE [c |-> c, size |-> c.encodedPacketSize, packet |-> c.encodedPacket]

\* OpusCodec::getEncodedPacket(outputPacket, maxSize)
getEncodedPacket(c, maxSize) ==
    IF ~c.packetReady \/ c.encodedPacketSize = 0
    THEN [c |-> c, size |-> 0, packet |-> <<>>]
    ELSE IF maxSize < c.encodedPacketSize
    THEN [c |-> c, size |-> -1, packet |-> <<>>]
    ELSE [c |-> [c EXCEPT !.packetReady = FALSE, !.encodedPacketSize = 0],
          size |-> c.encodedPacketSize, packet |-> c.encodedPacket]

\* OpusCodec::resetEncoder()
resetEncoder(c) ==
    [c EXCEPT !.accumulatorCount = 0, !.packetReady = FALSE, !.encodedPacketSize = 0]

\* history of a call addSamples(block) that took codec c to a.c: the samples
\* of the block that are in no frame and not in the accumulator, the packets
\* encodeFrame() stored, and whether one was stored over a packet not fetched
SamplesDropped(c, a) ==
    IF a.result < 0 THEN 0
    ELSE c.accumulatorCount + AUDIO_BLOCK_SAMPLES
            - (a.c.accumulatorCount + RESAMPLE_INPUT_SAMPLES * (a.result + a.failed))

PacketsMade(c, a) == a.c.encodedPacketCount - c.encodedPacketCount

PacketClobbered(c, a) ==
    \/ PacketsMade(c, a) > 1
    \/ PacketsMade(c, a) = 1 /\ c.packetReady

\* a File of the recording engine: closed, or open for append on a path
NoWriteFile == [open |-> FALSE, path |-> <<>>]

\* RecordingEngine::RecordingEngine()
RecordingEngineCtor ==
    [recording |-> FALSE, sdCardPresent |-> FALSE, lastError |-> "ERROR_NONE",
     recordingStartTime |-> U32Zero, bytesWritten |-> 0, packetCount |-> 0,
     nextSequenceNumber |-> 1, currentFileName |-> <<>>,
     currentFile |-> NoWriteFile, codec |-> OpusCodecCtor]

\* history of the recording engine: how the last startRecording() ended;
\* since the last successful startRecording(), the sizes of the packets
\* writePacket() accepted, the frames encoded, whether the header was stored
\* in full in a new file and whether a write fell short; in the last call,
\* the frames the encoder failed on and the cause of an abort; the files
\* opened and closed so far, the blocks fed so far, whether begin() was
\* called, the object before the last call, the last call; of the file
\* carried to the peer, the packets and the duration the engine reported
\* and whether its header was stored in full; whether a call of
\* processRecording() is in a loop it never leaves
Rg0 ==
    [case |-> "none", written |-> <<>>, frames |-> 0, lost |-> 0,
     headerStored |-> FALSE, wfail |-> FALSE, aborted |-> "no", opens |-> 0,
     closed |-> {}, blocks |-> 0, begun |-> FALSE, pre |-> RecordingEngineCtor,
     last |-> "none", sentPackets |-> -1, sentDuration |-> U32Zero,
     sentHeader |-> FALSE, hung |-> FALSE,
     dropped |-> 0, clobbered |-> FALSE, miscount |-> FALSE]

\* String::toInt(): the value of the leading decimal digits, 0 without any
toInt(s) == ToInt(s, 0)

\* String::startsWith
StartsWith(s, prefix) == Len(prefix) <= Len(s) /\ SubSeq(s, 1, Len(prefix)) = prefix

\* File::name(): the path without its directory
EntryName(path) == Substring(path, LastIndexOf(path, SLASH) + 1, Len(path))

\* the body of the scan loop of begin() for one entry: "MSG_NNNNN...opus"
ScanEntry(name, highest) ==
    IF StartsWith(name, MSG_PREFIX) /\ EndsWith(name, DOT_OPUS)
    THEN With(toInt(Substring(name, 4, Min(9, Len(name)))), LAMBDA num :
           IF num > highest THEN num ELSE highest)
    ELSE highest

\* the scan loop of begin() over the entries not yet listed
RECURSIVE ScanLoop(_, _)
ScanLoop(entries, highest) ==
    IF entries = {} THEN highest
    ELSE With(CHOOSE p \in entries : TRUE, LAMBDA p :
           ScanLoop(entries \ {p}, ScanEntry(EntryName(p), highest)))

\* RecordingEngine::checkSDCard(): card is the detect pin and SD.begin()
checkSDCard(e, card) == [e EXCEPT !.sdCardPresent = card]

\* SD.mkdir(): it creates the directory while the card takes new entries
SdMkdir(d, path, ok) == IF ok THEN d \union {path} ELSE d

\* RecordingEngine::createDirectories(): the directories afterwards
createDirectories(e, d, ok) ==
    IF ~e.sdCardPresent THEN d
    ELSE IF TX_DIR \notin d /\ ~ok THEN d
    ELSE With(SdMkdir(d, TX_DIR, ok), LAMBDA d1 :
           IF ok THEN d1 \union {DirPathOf(i) : i \in 0..(NUM_CHANNELS - 1)} ELSE d1)

\* RecordingEngine::begin()
RecordingEngine_begin(mm, card, ok, created) ==
    With(mm, LAMBDA m :
      IF ~card
      THEN [m |-> [m EXCEPT !.rec = [checkSDCard(m.rec, card) EXCEPT
                                        !.lastError = "ERROR_NO_SD_CARD"]],
            ret |-> FALSE]
      ELSE With([m EXCEPT !.rec = checkSDCard(m.rec, card),
                          !.dirs = createDirectories(checkSDCard(m.rec, card), m.dirs, ok)],
                LAMBDA m1 :
             With(OpusCodec_begin(m1.rec.codec, created), LAMBDA c :
               IF ~c.ok THEN [m |-> [m1 EXCEPT !.rec.codec = c.c], ret |-> FALSE]
               ELSE IF TX_DIR \notin m1.dirs
               THEN [m |-> [m1 EXCEPT !.rec.codec = c.c], ret |-> TRUE]
               ELSE [m |-> [m1 EXCEPT !.rec = [m1.rec EXCEPT
                               !.codec = c.c,
                               !.nextSequenceNumber =
                                   ScanLoop(DirEntries(m1.sd, TX_DIR), 0) + 1]],
                     ret |-> TRUE])))

\* RecordingEngine::generateFilename(channel)
generateFilename(e, channel) ==
    Snprintf(FILENAME_SIZE,
             TX_DIR \o MSG_ \o PadLeft(Dec(e.nextSequenceNumber), 5)
                    \o UNDER_CH \o Dec(channel + 1) \o DOT_OPUS)

\* SD.open(path, FILE_WRITE): the file is created when absent, and written
\* at its end.  It fails without a card, when the card takes no new entry
\* and when the directory of the path does not exist.
SdOpenAppend(m, path, card, ok) ==
    IF card /\ ok /\ Substring(path, 0, LastIndexOf(path, SLASH)) \in m.dirs
    THEN [m |-> [m EXCEPT !.sd = SdOpenWrite(m.sd, path)],
          f |-> [open |-> TRUE, path |-> path]]
    ELSE [m |-> m, f |-> NoWriteFile]

\* File::write(buf, n): the card stores the bytes it has room for and the
\* call returns their number; a card that was pulled stores none
FileWrite(m, f, data, card) ==
    With(IF card THEN Min(Len(data), m.free) ELSE 0, LAMBDA k :
      [m |-> [m EXCEPT !.sd = [m.sd EXCEPT ![f.path] = @ \o SubSeq(data, 1, k)],
                       !.free = @ - k],
       n |-> k])

\* the two bytes of a uint16_t, high byte first
LE2_BigEndian(n) == <<(n \div 256) % 256, n % 256>>

\* the two bytes of a uint16_t in memory
LE2(n) == <<n % 256, (n \div 256) % 256>>

\* RecordingEngine::writePacket(packet, size), counting both sizes twice
writePacket_DoubleCount(mm, packet, card) ==
    With(mm, LAMBDA m :
      IF ~m.rec.currentFile.open THEN [m |-> m, ok |-> FALSE]
      ELSE With(FileWrite(m, m.rec.currentFile, LE2(Len(packet)), card), LAMBDA w1 :
        IF w1.n # 2 THEN [m |-> [w1.m EXCEPT !.rg.wfail = TRUE], ok |-> FALSE]
        ELSE With(FileWrite(w1.m, m.rec.currentFile, packet, card), LAMBDA w2 :
          IF w2.n # Len(packet) THEN [m |-> [w2.m EXCEPT !.rg.wfail = TRUE], ok |-> FALSE]
          ELSE [m |-> [w2.m EXCEPT !.rec.bytesWritten = @ + 2 + 2 * Len(packet),
                                   !.rec.packetCount = @ + 1,
                                   !.rg.written = Append(@, Len(packet))],
                ok |-> TRUE])))

\* RecordingEngine::writePacket(packet, size)
writePacket(mm, packet, card) ==
    With(mm, LAMBDA m :
      IF ~m.rec.currentFile.open THEN [m |-> m, ok |-> FALSE]
      ELSE With(FileWrite(m, m.rec.currentFile, LE2(Len(packet)), card), LAMBDA w1 :
        IF w1.n # 2 THEN [m |-> [w1.m EXCEPT !.rg.wfail = TRUE], ok |-> FALSE]
        ELSE With(FileWrite(w1.m, m.rec.currentFile, packet, card), LAMBDA w2 :
          IF w2.n # Len(packet) THEN [m |-> [w2.m EXCEPT !.rg.wfail = TRUE], ok |-> FALSE]
          ELSE [m |-> [w2.m EXCEPT !.rec.bytesWritten = @ + 2 + Len(packet),
                                   !.rec.packetCount = @ + 1,
                                   !.rg.written = Append(@, Len(packet))],
                ok |-> TRUE])))

\* RecordingEngine::stopRecording(), leaving the sequence number alone
stopRecording_SameNumber(mm) ==
    With(mm, LAMBDA m :
      IF ~m.rec.recording THEN [m |-> m, ret |-> FALSE]
      ELSE [m |-> [m EXCEPT !.rec = [m.rec EXCEPT !.recording = FALSE,
                                                  !.currentFile = NoWriteFile],
                            !.rg.closed = IF m.rec.currentFile.open
                                          THEN @ \union {m.rec.currentFile.path} ELSE @],
            ret |-> TRUE])

\* RecordingEngine::stopRecording()
stopRecording(mm) ==
    With(mm, LAMBDA m :
      IF ~m.rec.recording THEN [m |-> m, ret |-> FALSE]
      ELSE [m |-> [m EXCEPT !.rec = [m.rec EXCEPT !.recording = FALSE,
                                                  !.currentFile = NoWriteFile,
                                                  !.nextSequenceNumber = @ + 1],
                            !.rg.closed = IF m.rec.currentFile.open
                                          THEN @ \union {m.rec.currentFile.path} ELSE @],
            ret |-> TRUE])

\* startRecording(): checkSDCard() failed
StartNoCard(m, card) ==
    [m |-> [m EXCEPT !.rec = [checkSDCard(m.rec, card) EXCEPT
                                 !.lastError = "ERROR_NO_SD_CARD"],
                     !.rg.case = "nosd"],
     ret |-> FALSE]

\* startRecording(): SD.open() gave no file
StartCreateFailed(m, name, card) ==
    [m |-> [m EXCEPT !.rec = [checkSDCard(m.rec, card) EXCEPT
                                 !.currentFileName = name,
                                 !.currentFile = NoWriteFile,
                                 !.lastError = "ERROR_FILE_CREATE_FAILED"],
                     !.rg.case = "create"],
     ret |-> FALSE]

\* startRecording(): the file is open; the header is written, its result
\* ignored, and the codec and the counters are reset
StartOpened(m, name, o, card, t) ==
    With(FileWrite(o.m, o.f, OPUS_MAGIC \o <<1, 0>>, card), LAMBDA w :
      [m |-> [w.m EXCEPT !.rec = [checkSDCard(m.rec, card) EXCEPT
                                     !.currentFileName = name,
                                     !.currentFile = o.f,
                                     !.bytesWritten = HEADER_SIZE,
                                     !.codec = resetEncoder(m.rec.codec),
                                     !.recordingStartTime = t,
                                     !.packetCount = 0,
                                     !.recording = TRUE],
                         !.rg = [m.rg EXCEPT !.case = "ok", !.written = <<>>,
                                             !.frames = 0,
                                             !.wfail = (w.n # HEADER_SIZE),
                                             !.opens = @ + 1,
                                             !.headerStored =
                                                 (w.n = HEADER_SIZE /\ m.sd # o.m.sd)]],
       ret |-> TRUE])

\* startRecording() from the card check on
StartChecked(m, channel, card, ok, t) ==
    IF ~card THEN StartNoCard(m, card)
    ELSE With(generateFilename(m.rec, channel), LAMBDA name :
           With(SdOpenAppend(m, name, card, ok), LAMBDA o :
             IF ~o.f.open THEN StartCreateFailed(m, name, card)
             ELSE StartOpened(m, name, o, card, t)))

\* RecordingEngine::startRecording(channel) without its first check
startRecording_Reopen(mm, channel, card, ok, t) ==
    With(mm, LAMBDA m : StartChecked(m, channel, card, ok, t))

\* RecordingEngine::startRecording(channel) where a failed SD.open() leaves
\* lastError alone
startRecording_NoErrorCode(mm, channel, card, ok, t) ==
    With(mm, LAMBDA m :
      IF m.rec.recording THEN [m |-> [m EXCEPT !.rg.case = "already"], ret |-> FALSE]
      ELSE IF ~card THEN StartNoCard(m, card)
      ELSE With(generateFilename(m.rec, channel), LAMBDA name :
             With(SdOpenAppend(m, name, card, ok), LAMBDA o :
               IF ~o.f.open
               THEN [m |-> [m EXCEPT !.rec = [checkSDCard(m.rec, card) EXCEPT
                                                 !.currentFileName = name,
                                                 !.currentFile = NoWriteFile],
                                     !.rg.case = "create"],
                     ret |-> FALSE]
               ELSE StartOpened(m, name, o, card, t))))

\* RecordingEngine::startRecording(channel)
startRecording(mm, channel, card, ok, t) ==
    With(mm, LAMBDA m :
      IF m.rec.recording THEN [m |-> [m EXCEPT !.rg.case = "already"], ret |-> FALSE]
      ELSE StartChecked(m, channel, card, ok, t))

\* the abort of processRecording without lastError = ERROR_WRITE_FAILED
AbortRecording_Silent(m, cause) ==
    [m |-> [stopRecording(m).m EXCEPT !.rg.aborted = cause],
     ret |-> FALSE]

\* the abort of processRecording: lastError = ERROR_WRITE_FAILED, then
\* stopRecording(), then return false
AbortRecording(m, cause) ==
    [m |-> [stopRecording([m EXCEPT !.rec.lastError = "ERROR_WRITE_FAILED"]).m
               EXCEPT !.rg.aborted = cause],
     ret |-> FALSE]

\* the inner while loop of processRecording.  getEncodedPacket() clears
\* packetReady when it gives a packet (size above 0), so a pass that writes
\* is the last one.  When it gives 0 or -1 it leaves the codec as it was,
\* the pass changes nothing and hasEncodedPacket() is still true: the loop
\* repeats that pass for ever (hung).
WritePackets(mm, card) ==
    With(mm, LAMBDA m :
      IF ~m.rec.codec.packetReady
      THEN [m |-> m, ok |-> TRUE, wrote |-> FALSE, hung |-> FALSE]
      ELSE With(getEncodedPacket(m.rec.codec, OPUS_MAX_PACKET_SIZE), LAMBDA g :
             IF g.size > 0
             THEN With(writePacket([m EXCEPT !.rec.codec = g.c], g.packet, card), LAMBDA w :
                    [m |-> w.m, ok |-> w.ok, wrote |-> w.ok, hung |-> FALSE])
             ELSE [m |-> m, ok |-> TRUE, wrote |-> FALSE, hung |-> TRUE]))

\* the outer while loop of processRecording: one pass per available block
RECURSIVE RecordLoop(_, _, _, _, _)
RecordLoop(mm, blocks, enc, dataProcessed, card) ==
    With(mm, LAMBDA m :
      IF blocks = 0 THEN [m |-> m, ret |-> dataProcessed]
      ELSE With(addSamples(m.rec.codec, AUDIO_BLOCK_SAMPLES, enc), LAMBDA a :
        With([m EXCEPT !.rec.codec = a.c,
                       !.rg.frames = @ + (IF a.result > 0 THEN a.result ELSE 0),
                       !.rg.lost = @ + a.failed,
                       !.rg.blocks = @ + 1,
                       !.rg.dropped = @ + SamplesDropped(m.rec.codec, a),
                       !.rg.clobbered = @ \/ PacketClobbered(m.rec.codec, a),
                       !.rg.miscount = @ \/ (m.rec.codec.encoder /\
                                                a.result # PacketsMade(m.rec.codec, a))],
             LAMBDA m1 :
          IF a.result < 0 THEN AbortRecording(m1, "codec")
          ELSE With(WritePackets(m1, card), LAMBDA w :
                 IF w.hung THEN [m |-> [w.m EXCEPT !.rg.hung = TRUE], ret |-> FALSE]
                 ELSE IF ~w.ok THEN AbortRecording(w.m, "write")
                 ELSE RecordLoop(w.m, blocks - 1, a.enc,
                                 dataProcessed \/ w.wrote, card)))))

\* RecordingEngine::processRecording(queue), the queue holding `blocks`
processRecording(m, blocks, enc, card) ==
    IF ~m.rec.recording THEN [m |-> m, ret |-> FALSE]
    ELSE RecordLoop(m, blocks, enc, FALSE, card)

\* RecordingEngine::getRecordingDuration(), in ms; a 32-bit value
getRecordingDuration(e, t) ==
    IF e.recording THEN U32Sub(t, e.recordingStartTime)
    ELSE U32OfNat(e.packetCount * OPUS_FRAME_MS)

\* RecordingEngine::getRecordingSize()
getRecordingSize(e) == e.bytesWritten

\* RecordingEngine::clearError()
clearError(e) == [e EXCEPT !.lastError = "ERROR_NONE"]

\* PlaybackEngine::getFileDuration()
getFileDuration(e) == e.totalPackets * OPUS_FRAME_MS

-----------------------------------------------------------------------------
(* Initial state: the objects as constructed, an empty card *)

EmptyStore == [p \in {} |-> <<>>]

H0 == [lastOpen |-> "none", openBase |-> 0, openSeq |-> -1, storedMax |-> -1,
       completed |-> 0, pre |-> SerialProtocolCtor, preSd |-> EmptyStore,
       lastByte |-> -1]

NoCur == [kind |-> "none", inSync |-> FALSE, ch |-> 0, name |-> <<>>, payload |-> <<>>,
          left |-> 0, ended |-> FALSE, completed0 |-> 0, phase |-> "start",
          pair |-> FALSE, lastG |-> -1, garbage |-> 0,
          roster0 |-> <<>>, files0 |-> {}, members |-> {}, admitted |-> {}]

Clk0 == [sinceAct |-> U32Zero, sinceByte |-> <<-1, 0>>, ticks |-> 0, restarts |-> 0]

InitRx ==
    /\ sp = SerialProtocolCtor
    /\ sd = EmptyStore
    /\ sdOk = TRUE
    /\ wire = <<>>
    /\ avail = <<>>
    /\ ret = FALSE
    /\ now = U32Zero
    /\ h = H0
    /\ cur = NoCur
    /\ clk = Clk0
    /\ pb = PlaybackEngineCtor
    /\ ph = Ph0
    /\ rec = RecordingEngineCtor
    /\ tx = <<>>
    /\ rg = Rg0
    /\ cardIn = TRUE
    /\ free = CardRoom
    /\ dirs = {}

-----------------------------------------------------------------------------
(* Actions of the receiver and of its environment *)

InSync == sp.serial /\ sp.rxState \in {"RX_WAIT_SYNC1", "RX_WAIT_SYNC2"}

\* The bridge emits a frame, and what follows it at once, when the receiver
\* has read all that was sent before.
Emit(kind, bytes, trail, ch, name, payload) ==
    /\ wire = <<>> /\ avail = <<>>
    /\ wire' = bytes \o trail
    /\ cur' = [cur EXCEPT !.kind = kind, !.inSync = InSync, !.ch = ch, !.name = name,
                          !.payload = payload, !.left = Len(bytes), !.ended = FALSE,
                          !.completed0 = h.completed,
                          !.roster0 = <<sp.users, sp.userCount, sp.userListChanged>>,
                          !.files0 = DOMAIN sd]
    /\ h' = [h EXCEPT !.lastOpen = "none"]
    /\ UNCHANGED <<tx, recOnly, pb, ph, sp, sd, sdOk, avail, ret, now, clk>>

SendAudio(ch, name, payload, trail) ==
    /\ sp.rxSequence < MaxFrames
    /\ Emit("audio", AudioFrame(ch, name, payload), trail, ch, name, payload)

SendControl(type, name) ==
    Emit("control", ControlFrame(type, name), <<>>, CONTROL_CHANNEL, name, <<>>)

SendCorruptLength(len) == Emit("corrupt", CorruptLengthFrame(len), <<>>, 0, <<>>, <<>>)

SendZeroLength(ch) == Emit("zero", ZeroLengthFrame(ch), <<>>, ch, <<>>, <<>>)

\* k bytes arrive in the serial buffer
Deliver(k) ==
    /\ k <= Len(wire)
    /\ Len(avail) + k <= MaxChunk
    /\ avail' = avail \o SubSeq(wire, 1, k)
    /\ wire' = SubSeq(wire, k + 1, Len(wire))
    /\ UNCHANGED <<tx, recOnly, pb, ph, sp, sd, sdOk, ret, now, h, cur, clk>>

\* the control loop calls processIncoming()
ProcessIncoming ==
    LET r == processIncoming([sp |-> sp, sd |-> sd, h |-> h], avail, sdOk, now)
        n == Len(avail) - Len(r.rest)
    IN  /\ sp' = r.m.sp
        /\ sd' = r.m.sd
        /\ h' = r.m.h
        /\ avail' = r.rest
        /\ ret' = r.ret
        /\ cur' = [cur EXCEPT !.left = IF cur.left - n < 0 THEN -1 ELSE cur.left - n,
                              !.ended = cur.left > 0 /\ cur.left - n <= 0]
        /\ clk' = IF n > 0 THEN [clk EXCEPT !.sinceAct = U32Zero, !.sinceByte = U32Zero]
                  ELSE clk
        /\ UNCHANGED <<tx, recOnly, pb, ph, sdOk, wire, now>>

\* begin() waits 100 ms before it returns
BEGIN_DELAY_MS == 100

\* history: d more milliseconds have passed
Elapse(c, d) ==
    [c EXCEPT !.sinceAct = <<c.sinceAct[1] + ((c.sinceAct[2] + d[2]) \div 65536) + d[1],
                             (c.sinceAct[2] + d[2]) % 65536>>,
              !.sinceByte = IF c.sinceByte[1] < 0 THEN c.sinceByte
                            ELSE <<c.sinceByte[1] + ((c.sinceByte[2] + d[2]) \div 65536) + d[1],
                                   (c.sinceByte[2] + d[2]) % 65536>>]

\* the application calls begin()
Begin(serialPort) ==
    /\ ~sp.serial
    /\ sp' = begin(sp, serialPort, now)
    /\ ret' = serialPort
    /\ now' = IF serialPort THEN U32Add(now, <<0, BEGIN_DELAY_MS>>) ELSE now
    /\ clk' = IF serialPort
              THEN Elapse([clk EXCEPT !.sinceAct = U32Zero], <<0, BEGIN_DELAY_MS>>)
              ELSE clk
    /\ UNCHANGED <<tx, recOnly, pb, ph, sd, sdOk, wire, avail, h, cur>>

\* the card is pulled or put back
CardChange ==
    /\ sdOk' = ~sdOk
    /\ UNCHANGED <<tx, recOnly, pb, ph, sp, sd, wire, avail, ret, now, h, cur, clk>>

NextRx ==
    \/ \E port \in BOOLEAN : Begin(port)
    \/ \E ch \in Channels, name \in Names, payload \in Payloads, trail \in Trails :
          SendAudio(ch, name, payload, trail)
    \/ \E type \in {MSG_TYPE_JOIN, MSG_TYPE_PART, MSG_TYPE_PING}, name \in Names :
          SendControl(type, name)
    \/ \E len \in CorruptLengths : SendCorruptLength(len)
    \/ \E ch \in Channels : SendZeroLength(ch)
    \/ \E k \in 1..MaxChunk : Deliver(k)
    \/ ProcessIncoming
    \/ CardChange

SpecRx == InitRx /\ [][NextRx]_vars

-----------------------------------------------------------------------------
(* Resynchronisation: a corrupt length, stray bytes, then one valid frame *)

ResyncGarbage == {0, 1, SYNC_BYTE_2, SYNC_BYTE_1}

RsCorrupt ==
    /\ cur.phase = "start" /\ sp.serial
    /\ wire' = CorruptLengthFrame(<<255, 255, 255, 255>>)
    /\ cur' = [cur EXCEPT !.phase = "garbage"]
    /\ UNCHANGED <<tx, recOnly, pb, ph, sp, sd, sdOk, avail, ret, now, h, clk>>

RsGarbage(b) ==
    /\ cur.phase = "garbage" /\ cur.garbage < MaxGarbage
    /\ wire' = Append(wire, b)
    /\ cur' = [cur EXCEPT !.garbage = cur.garbage + 1, !.lastG = b,
                          !.pair = cur.pair \/ (cur.lastG = SYNC_BYTE_1 /\ b = SYNC_BYTE_2)]
    /\ UNCHANGED <<tx, recOnly, pb, ph, sp, sd, sdOk, avail, ret, now, h, clk>>

RsValid(ch, name, payload) ==
    /\ cur.phase = "garbage"
    /\ wire' = wire \o AudioFrame(ch, name, payload)
    /\ cur' = [cur EXCEPT !.phase = "frame", !.kind = "audio", !.ch = ch, !.name = name,
                          !.payload = payload]
    /\ UNCHANGED <<tx, recOnly, pb, ph, sp, sd, sdOk, avail, ret, now, h, clk>>

NextResync ==
    \/ \E port \in BOOLEAN : Begin(port)
    \/ RsCorrupt
    \/ \E b \in ResyncGarbage : RsGarbage(b)
    \/ \E ch \in Channels, name \in Names, payload \in Payloads : RsValid(ch, name, payload)
    \/ \E k \in 1..MaxChunk : Deliver(k)
    \/ ProcessIncoming
    \/ CardChange

SpecResync == InitRx /\ [][NextResync]_vars

-----------------------------------------------------------------------------
(* Liveness of the link: the clock *)

\* 2899 ms, 2900 ms, 3000 ms, 2^32 - 3000 ms
TickSteps == {<<0, 2899>>, <<0, 2900>>, <<0, 3000>>, <<65535, 62536>>}

Tick(d) ==
    /\ clk.ticks < MaxTicks
    /\ now' = U32Add(now, d)
    /\ clk' = [Elapse(clk, d) EXCEPT !.ticks = clk.ticks + 1]
    /\ UNCHANGED <<tx, recOnly, pb, ph, sp, sd, sdOk, wire, avail, ret, h, cur>>

NextLive ==
    \/ \E port \in BOOLEAN : Begin(port)
    \/ \E d \in TickSteps : Tick(d)
    \/ SendAudio(1, <<65>>, Payload(1), <<>>)
    \/ SendControl(MSG_TYPE_JOIN, <<65>>)
    \/ Deliver(1)
    \/ ProcessIncoming
    \/ CardChange

SpecLive == InitRx /\ [][NextLive]_vars

-----------------------------------------------------------------------------
(* Power cycles *)

\* the device restarts: the object is constructed anew, the card keeps its files
Restart ==
    /\ clk.restarts < MaxRestarts
    /\ sp' = SerialProtocolCtor
    /\ wire' = <<>> /\ avail' = <<>>
    /\ ret' = FALSE
    /\ now' = U32Zero
    /\ h' = [H0 EXCEPT !.completed = h.completed]
    /\ cur' = NoCur
    /\ clk' = [Clk0 EXCEPT !.ticks = clk.ticks, !.restarts = clk.restarts + 1]
    /\ UNCHANGED <<tx, recOnly, pb, ph, sd, sdOk>>

NextRestart ==
    \/ \E port \in BOOLEAN : Begin(port)
    \/ \E ch \in Channels, name \in Names, payload \in Payloads :
          SendAudio(ch, name, payload, <<>>)
    \/ \E k \in 1..MaxChunk : Deliver(k)
    \/ ProcessIncoming
    \/ CardChange
    \/ Restart

SpecRestart == InitRx /\ [][NextRestart]_vars

-----------------------------------------------------------------------------
(* The playback engine under its callers *)

rxOnly == <<sp, sdOk, wire, avail, now, h, cur, clk, recOnly, tx>>

InitEngine ==
    /\ sp = SerialProtocolCtor
    /\ sdOk = TRUE
    /\ wire = <<>>
    /\ avail = <<>>
    /\ ret = FALSE
    /\ now = U32Zero
    /\ h = H0
    /\ cur = NoCur
    /\ clk = Clk0
    /\ pb = PlaybackEngineCtor
    /\ ph = Ph0
    /\ rec = RecordingEngineCtor
    /\ tx = <<>>
    /\ rg = Rg0
    /\ cardIn = TRUE
    /\ free = CardRoom
    /\ dirs = {}

Machine == [pb |-> pb, sd |-> sd, ph |-> ph]

\* channels the user may select, and one without a directory
PlayChannels == {0, 1, NUM_CHANNELS}

\* free blocks of the sink when processPlayback is called
SinkRooms == {0, 3, LOOP_LIMIT}

InitPlay ==
    /\ InitEngine
    /\ \E a \in ValidImages \union FaultyImages, b \in {ValidFile(1), BadMagic} :
          sd = (QueuePath(0, 0) :> a) @@ (QueuePath(0, 1) :> b)
                 @@ (QueuePath(1, 0) :> ValidFile(1)) @@ (OtherFile :> <<1>>)

LoadChannelQueue(channel, order) ==
    \E r \in {loadChannelQueue(pb, channel, order)} :
        /\ pb' = r.e
        /\ ret' = r.ret
        /\ UNCHANGED <<sd, ph, rxOnly>>

StartPlayback ==
    \E r \in {startPlayback(Machine, TRUE, now)} :
        /\ pb' = r.q.pb
        /\ ph' = r.q.ph
        /\ ret' = r.ok
        /\ UNCHANGED <<sd, rxOnly>>

\* history: the blocks of a call are kept only where they are looked at
ForgetBlocks(hist) ==
    [hist EXCEPT !.block = NoBlock, !.next = 0, !.dropped = 0, !.tries = 0]

ProcessPlayback(room) ==
    \E r \in {processPlayback(Machine, TRUE, room, now)} :
        /\ pb' = r.q.pb
        /\ sd' = r.q.sd
        /\ ph' = ForgetBlocks(r.q.ph)
        /\ ret' = r.ret
        /\ UNCHANGED rxOnly

StopPlayback ==
    /\ pb' = stopPlayback(pb)
    /\ ret' = TRUE
    /\ UNCHANGED <<sd, ph, rxOnly>>

PausePlayback ==
    \E r \in {pausePlayback(pb)} :
        /\ pb' = r.e
        /\ ret' = r.ok
        /\ UNCHANGED <<sd, ph, rxOnly>>

ResumePlayback ==
    \E r \in {resumePlayback(pb, now)} :
        /\ pb' = r.e
        /\ ret' = r.ok
        /\ UNCHANGED <<sd, ph, rxOnly>>

NextPlay ==
    \/ \E channel \in PlayChannels :
          \E order \in DirOrders(sd, DirPathOf(channel)) : LoadChannelQueue(channel, order)
    \/ StartPlayback
    \/ \E room \in SinkRooms : ProcessPlayback(room)
    \/ StopPlayback
    \/ PausePlayback
    \/ ResumePlayback

SpecPlay == InitPlay /\ [][NextPlay]_vars

-----------------------------------------------------------------------------
(* A queue played through: load, start, then ticks with a willing sink *)

QueuePaths == [i \in 1..QueueLen |-> QueuePath(0, i - 1)]

QueueSet == {QueuePaths[i] : i \in 1..QueueLen}

\* the sink accepts at least one block at every tick
WillingRooms == {1, LOOP_LIMIT}

InitDrain ==
    /\ InitEngine
    /\ sd \in [QueueSet -> ValidImages]

InitSkip ==
    /\ InitEngine
    /\ sd \in [QueueSet -> ValidImages \union FaultyImages]

QueueLoad(order) ==
    /\ ph.stage = "new"
    /\ \E r \in {loadChannelQueue(pb, 0, order)} :
           /\ pb' = r.e
           /\ ret' = r.ret
    /\ ph' = [ph EXCEPT !.stage = "loaded"]
    /\ UNCHANGED <<sd, rxOnly>>

QueueStart ==
    /\ ph.stage = "loaded"
    /\ \E r \in {startPlayback(Machine, TRUE, now)} :
           /\ pb' = r.q.pb
           /\ ph' = [r.q.ph EXCEPT !.stage = "started"]
           /\ ret' = r.ok
    /\ UNCHANGED <<sd, rxOnly>>

QueueTick(room) ==
    /\ ph.stage = "started"
    /\ ProcessPlayback(room)

NextQueue ==
    \/ ph.stage = "new" /\ \E order \in DirOrders(sd, DirPathOf(0)) : QueueLoad(order)
    \/ QueueStart
    \/ \E room \in WillingRooms : QueueTick(room)

SpecDrain == InitDrain /\ [][NextQueue]_vars /\ WF_vars(NextQueue)

SpecSkip == InitSkip /\ [][NextQueue]_vars /\ WF_vars(NextQueue)

-----------------------------------------------------------------------------
(* The recording engine under its callers *)

MaxBlocks == 15        \* audio blocks fed to processRecording per behaviour
MaxRecordings == 2     \* recordings started per power-up

\* the queue holds one block, or the seven blocks of a frame
BlockCounts == {1, 7}

\* what opus_encode() returns for a frame: an error, or a packet
EncodeResults == {<<-1>>, <<9>>, <<9, 9>>}

\* the outcomes of the opus_encode() calls of one processRecording(): the
\* encoder fails on all its frames, or gives packets of one size
EncodePlans == {<<a, a>> : a \in EncodeResults}

\* the channel the user records on
RecChannels == {NUM_CHANNELS - 1}

\* room on the card at power-up: less than a header, a header and part of
\* a length, a header and part of a packet, plenty
CardRooms == {5, 7, 9, CardRoom}

InitRec ==
    /\ sp = SerialProtocolCtor
    /\ sd = EmptyStore
    /\ sdOk = TRUE
    /\ wire = <<>>
    /\ avail = <<>>
    /\ ret = FALSE
    /\ now = U32Zero
    /\ h = H0
    /\ cur = NoCur
    /\ clk = Clk0
    /\ pb = PlaybackEngineCtor
    /\ ph = Ph0
    /\ rec = RecordingEngineCtor
    /\ tx = <<>>
    /\ rg = Rg0
    /\ cardIn = TRUE
    /\ free \in CardRooms
    /\ dirs = {}

notRec == <<sp, sdOk, wire, avail, now, h, cur, clk, pb, ph, cardIn, tx>>

\* the history when a call begins
Called(call) == [rg EXCEPT !.pre = rec, !.last = call, !.aborted = "no", !.lost = 0]

\* the machine a method of the engine runs on
RecMachine(call) ==
    [rec |-> rec, sd |-> sd, free |-> free, dirs |-> dirs, rg |-> Called(call)]

RecDone(m) ==
    /\ rec' = m.rec
    /\ sd' = m.sd
    /\ free' = m.free
    /\ dirs' = m.dirs
    /\ rg' = m.rg

\* setup() calls begin() once per power-up
RecBegin(created) ==
    /\ ~rg.begun
    /\ \E r \in {RecordingEngine_begin(RecMachine("begin"), cardIn, sdOk, created)} :
          /\ RecDone([r.m EXCEPT !.rg.begun = TRUE])
          /\ ret' = r.ret
    /\ UNCHANGED notRec

StartRecording(channel) ==
    /\ rg.opens < MaxRecordings
    /\ \E r \in {startRecording(RecMachine("start"), channel, cardIn, sdOk, now)} :
          /\ RecDone(r.m)
          /\ ret' = r.ret
    /\ UNCHANGED notRec

ProcessRecording(blocks, enc) ==
    /\ rg.blocks + blocks <= MaxBlocks
    /\ \E r \in {processRecording(RecMachine("process"), blocks, enc, cardIn)} :
          /\ RecDone(r.m)
          /\ ret' = r.ret
    /\ UNCHANGED notRec

StopRecording ==
    /\ \E r \in {stopRecording(RecMachine("stop"))} :
          /\ RecDone(r.m)
          /\ ret' = r.ret
    /\ UNCHANGED notRec

ClearError ==
    /\ rec' = clearError(rec)
    /\ rg' = Called("clear")
    /\ UNCHANGED <<sd, free, dirs, ret, notRec>>

\* the card is pulled, or pushed back in
CardSwap ==
    /\ cardIn' = ~cardIn
    /\ rg' = Called("card")
    /\ UNCHANGED <<tx, sp, sd, sdOk, wire, avail, ret, now, h, cur, clk, pb, ph,
                   rec, free, dirs>>

NextRec ==
    \/ \E created \in BOOLEAN : RecBegin(created)
    \/ \E channel \in RecChannels : StartRecording(channel)
    \/ \E blocks \in BlockCounts, enc \in EncodePlans : ProcessRecording(blocks, enc)
    \/ StopRecording
    \/ ClearError
    \/ CardSwap

SpecRec == InitRec /\ [][NextRec]_vars

-----------------------------------------------------------------------------
(* The recording engine across power cycles, on a card that holds messages *)

MAX_SEQUENCE_NUMBER == 99999

\* sequence numbers of the messages on the card at power-up.  The names are
\* the ones generateFilename() gives: five digits up to 99999, six from the
\* recording after that one on.
StoredNumbers == {17, MAX_SEQUENCE_NUMBER, MAX_SEQUENCE_NUMBER + 1}

\* the path generateFilename() gave the recording with this number
StoredPath(n) ==
    generateFilename([RecordingEngineCtor EXCEPT !.nextSequenceNumber = n],
                     NUM_CHANNELS - 1)

\* the blocks that fill a frame, and the packet the encoder makes of it
FrameBlocks == 7
GoodPacketBody == <<9, 9>>

InitBoot ==
    /\ sp = SerialProtocolCtor
    /\ \E N \in SUBSET StoredNumbers :
          sd = [p \in {StoredPath(n) : n \in N} |-> ValidFile(1)]
    /\ sdOk = TRUE
    /\ wire = <<>>
    /\ avail = <<>>
    /\ ret = FALSE
    /\ now = U32Zero
    /\ h = H0
    /\ cur = NoCur
    /\ clk = Clk0
    /\ pb = PlaybackEngineCtor
    /\ ph = Ph0
    /\ rec = RecordingEngineCtor
    /\ tx = <<>>
    /\ rg = Rg0
    /\ cardIn = TRUE
    /\ free = CardRoom
    /\ dirs = {TX_DIR} \union {DirPathOf(i) : i \in 0..(NUM_CHANNELS - 1)}

\* the device restarts: the engine is constructed anew, the card keeps its
\* files
Reboot ==
    /\ clk.restarts < MaxRestarts
    /\ rec' = RecordingEngineCtor
    /\ rg' = Rg0
    /\ clk' = [clk EXCEPT !.restarts = @ + 1]
    /\ ret' = FALSE
    /\ UNCHANGED <<tx, sp, sd, sdOk, wire, avail, now, h, cur, pb, ph, cardIn, free, dirs>>

NextBoot ==
    \/ \E created \in BOOLEAN : RecBegin(created)
    \/ \E channel \in RecChannels : StartRecording(channel)
    \/ ProcessRecording(FrameBlocks, <<GoodPacketBody, GoodPacketBody>>)
    \/ StopRecording
    \/ Reboot

SpecBoot == InitBoot /\ [][NextBoot]_vars

-----------------------------------------------------------------------------
(* A recording carried to the playback engine: recorded, sent over the      *)
(* bridge, stored in the receive directory of its channel, queued, opened   *)

\* where the receiver stores the first message of the recorded channel
TripPath == QueuePath(NUM_CHANNELS - 1, 0)

\* room on the card at power-up: less than a header, or plenty
TripRooms == {5, CardRoom}

InitTrip ==
    /\ sp = SerialProtocolCtor
    /\ sd = EmptyStore
    /\ sdOk = TRUE
    /\ wire = <<>>
    /\ avail = <<>>
    /\ ret = FALSE
    /\ now = U32Zero
    /\ h = H0
    /\ cur = NoCur
    /\ clk = Clk0
    /\ pb = PlaybackEngineCtor
    /\ ph = Ph0
    /\ rec = RecordingEngineCtor
    /\ tx = <<>>
    /\ rg = Rg0
    /\ cardIn = TRUE
    /\ free \in TripRooms
    /\ dirs = {}

\* sendFile() of the file last closed, the bridge, and processIncoming() on
\* the peer: the bytes of the file arrive unchanged in the receive directory.
\* The history keeps what the recording engine reports of the recording.
Relay ==
    /\ ~rec.recording
    /\ rec.currentFileName \in rg.closed
    /\ rg.sentPackets = -1
    /\ sd' = (TripPath :> sd[rec.currentFileName]) @@ sd
    /\ rg' = [Called("relay") EXCEPT !.sentPackets = rec.packetCount,
                                     !.sentDuration = getRecordingDuration(rec, now),
                                     !.sentHeader = rg.headerStored]
    /\ UNCHANGED <<tx, sp, sdOk, wire, avail, ret, now, h, cur, clk, pb, ph,
                   rec, cardIn, free, dirs>>

NextTrip ==
    \/ RecBegin(TRUE)
    \/ \E channel \in RecChannels : StartRecording(channel)
    \/ \E blocks \in BlockCounts, enc \in EncodePlans : ProcessRecording(blocks, enc)
    \/ StopRecording
    \/ Relay
    \/ \E order \in DirOrders(sd, DirPathOf(NUM_CHANNELS - 1)) :
          LoadChannelQueue(NUM_CHANNELS - 1, order)
    \/ StartPlayback

SpecTrip == InitTrip /\ [][NextTrip]_vars

-----------------------------------------------------------------------------
(* Claims about the receiver, checked under SpecRx *)

\* what the receiver has written into the file it opened last
Written == SubSeq(sd[sp.rxFilePath], h.openBase + 1, Len(sd[sp.rxFilePath]))

FirstN(seq, n) == SubSeq(seq, 1, n)

\* C2: a valid audio frame that starts while the receiver searches for sync,
\* and whose file is created, is streamed into that file: at every point
\* of the payload the file holds the payload bytes read so far, in order, and
\* with the last payload byte the file is closed, the ready flag is up,
\* processIncoming has returned true and the state is WaitSync1.
ThmC2 ==
    (cur.kind = "audio" /\ cur.inSync) =>
        /\ (cur.left >= 0 /\ cur.left <= Len(cur.payload)) => h.lastOpen # "none"
        /\ (h.lastOpen = "ok" /\ cur.left > 0) =>
              /\ sp.rxState = "RX_READ_DATA"
              /\ sp.rxFile = sp.rxFilePath
              /\ Written = FirstN(cur.payload, Len(cur.payload) - cur.left)
        /\ (h.lastOpen = "ok" /\ cur.ended) =>
              /\ cur.left = 0
              /\ ret = TRUE
              /\ sp.rxState = "RX_WAIT_SYNC1"
              /\ sp.rxFile = NoFile
              /\ sp.rxFileReady
              /\ Written = cur.payload
              /\ h.completed = cur.completed0 + 1

WitC2 ==
    /\ cur.kind = "audio" /\ cur.inSync /\ h.lastOpen = "ok" /\ cur.ended
    /\ Len(cur.payload) = MaxPayload /\ cur.name # <<>>
    /\ ret = TRUE /\ Written = cur.payload

\* C3 (as claimed): when the file of an in-sync audio frame cannot be created,
\* named or anonymous, the receiver discards exactly the payload and is back
\* in WaitSync1 after its last byte, with no ready flag raised.
ClaimC3 ==
    (cur.kind = "audio" /\ cur.inSync /\ h.lastOpen = "fail") =>
        /\ cur.left > 0 =>
              /\ sp.rxState = "RX_DISCARD_DATA"
              /\ sp.rxBytesReceived = Len(cur.payload) - cur.left
        /\ (cur.ended /\ cur.left = 0) =>
              /\ sp.rxState = "RX_WAIT_SYNC1"
              /\ ret = FALSE
              /\ h.completed = cur.completed0

\* C4: a length over the maximum resets the receiver with the 4th length
\* byte, a zero length on a non-control selector resets it with the selector
\* byte; no file is opened or written and the roster is as before.
ThmC4 ==
    (cur.kind \in {"corrupt", "zero"} /\ cur.inSync /\ cur.ended) =>
        /\ cur.left = 0
        /\ h.pre.rxState = (IF cur.kind = "corrupt" THEN "RX_READ_LENGTH" ELSE "RX_READ_CHANNEL")
        /\ sp.rxState = "RX_WAIT_SYNC1"
        /\ sp.rxFile = NoFile
        /\ h.lastOpen = "none"
        /\ DOMAIN sd = cur.files0
        /\ sd = h.preSd
        /\ <<sp.users, sp.userCount, sp.userListChanged>> = cur.roster0
        /\ h.completed = cur.completed0

WitC4 ==
    /\ cur.kind = "corrupt" /\ cur.inSync /\ cur.ended
    /\ sp.userCount = 1 /\ DOMAIN sd # {}
    /\ sp.rxState = "RX_WAIT_SYNC1"

-----------------------------------------------------------------------------
(* Claims checked under SpecResync *)

AllRead == wire = <<>> /\ avail = <<>>

\* every receive state is left after finitely many more bytes
CanLeave ==
    /\ sp.rxState = "RX_READ_LENGTH" => sp.rxLengthPos < 4
    /\ sp.rxState = "RX_READ_USERNAME" =>
          sp.rxUsernamePos < sp.rxUsernameLen /\ sp.rxUsernameLen <= MAX_USERNAME_LEN
    /\ sp.rxState \in {"RX_READ_DATA", "RX_DISCARD_DATA"} =>
          /\ ~U32Gt(sp.rxFileLength, MAX_FILE_SIZE)
          /\ sp.rxBytesReceived < LengthValue(sp)

\* C1 (as claimed): after sync A, sync B, length 0xFFFFFFFF and arbitrary
\* further bytes, one valid audio frame yields exactly one completed file.
ClaimC1 ==
    (cur.phase = "frame" /\ AllRead /\ h.lastOpen # "fail") =>
        /\ h.completed = 1
        /\ sp.rxFileReady
        /\ sp.rxState = "RX_WAIT_SYNC1"

\* C1 (amended): the same when the further bytes nowhere hold sync A directly
\* followed by sync B and the file of the valid frame can be created; and in
\* every state the receiver needs only finitely many bytes to leave it.
ThmC1 ==
    /\ CanLeave
    /\ (cur.phase = "frame" /\ ~cur.pair /\ AllRead /\ h.lastOpen # "fail") =>
          /\ h.completed = 1
          /\ sp.rxFileReady
          /\ sp.rxState = "RX_WAIT_SYNC1"
          /\ h.lastOpen = "ok"
          /\ Written = cur.payload
          /\ Cardinality(DOMAIN sd) = 1

WitC1 ==
    /\ cur.phase = "frame" /\ ~cur.pair /\ AllRead
    /\ cur.garbage = MaxGarbage /\ cur.lastG = SYNC_BYTE_1
    /\ h.completed = 1 /\ sp.rxFileReady

-----------------------------------------------------------------------------
(* Claims checked under SpecLive *)

\* C5 (as claimed): isConnected() holds exactly when a byte was received
\* less than CONNECTION_TIMEOUT_MS ago.
ClaimC5 ==
    isConnected(sp, now) <=>
        (clk.sinceByte[1] = 0 /\ clk.sinceByte[2] < CONNECTION_TIMEOUT_MS)

\* C5 (amended): isConnected() holds exactly when, on the 32-bit millisecond
\* clock, less than CONNECTION_TIMEOUT_MS has passed since the latest of
\* power-up, a successful begin() and a byte read by processIncoming(); a
\* byte read in any receive state restarts the window.
ThmC5 ==
    isConnected(sp, now) <=>
        (clk.sinceAct[1] % 65536 = 0 /\ clk.sinceAct[2] < CONNECTION_TIMEOUT_MS)

WitC5 ==
    /\ sp.rxState = "RX_DISCARD_DATA"
    /\ clk.sinceByte = U32Zero
    /\ U32Gt(now, <<0, CONNECTION_TIMEOUT_MS>>)
    /\ isConnected(sp, now)

-----------------------------------------------------------------------------
(* Claims checked under SpecRestart *)

\* C10 (as claimed): a file the receiver creates never gets a sequence number
\* that a received file on the card already has, or a lower one.
ClaimC10 == h.lastOpen = "ok" => h.openSeq > h.storedMax

-----------------------------------------------------------------------------
(* Claims checked under SpecDrain, SpecSkip and SpecPlay *)

Drained ==
    /\ ph.stage = "started"
    /\ pb.state = "PLAYBACK_IDLE"
    /\ ret = FALSE
    /\ ph.order = QueuePaths
    /\ ph.removedOrder = QueuePaths
    /\ DOMAIN sd \intersect QueueSet = {}

\* C6: a queue of valid files, started and ticked with a sink that keeps
\* accepting blocks, is in the end played through in ascending name order,
\* each file removed as it finishes; no queued file is left, the engine is
\* Idle and processPlayback has returned false.
ThmC6 == [](ph.removedOrder = ph.order) /\ <>[]Drained

WitC6 == Drained /\ ph.fin.decodes = MaxPackets /\ ph.fin.path = QueuePaths[QueueLen]

\* C7 (as claimed): whatever the fault of a queued file and wherever it is in
\* the queue, it is deleted and every valid file after it is played in the end.
ClaimC7 == <>[](DOMAIN sd \intersect QueueSet = {} /\ ph.removed = QueueSet)

\* C8 (as claimed): the engine removes a file only when that file was opened
\* by it and came to its end of data or to a read or decode failure.
ClaimC8 == ph.removed \subseteq (ph.played \union ph.abandoned)

\* C9: while a valid container is played, the position is 20 ms times the
\* packets decoded from it so far; at its end exactly N packets were decoded
\* and the position is N x 20 ms.
ThmC9 ==
    /\ (pb.currentFile.open /\ ValidPackets(sd[pb.currentFile.path]) >= 0) =>
          /\ ph.decodes = pb.packetsPlayed
          /\ ph.decodes <= ValidPackets(sd[pb.currentFile.path])
          /\ pb.state # "PLAYBACK_IDLE" =>
                getPlaybackPosition(pb) = ph.decodes * OPUS_FRAME_MS
    /\ ph.fin.valid >= 0 =>
          /\ ph.fin.decodes = ph.fin.valid
          /\ ph.fin.pos = ph.fin.valid * OPUS_FRAME_MS

WitC9 ==
    /\ ph.fin.valid = MaxPackets
    /\ ph.fin.decodes = MaxPackets
    /\ ph.fin.pos = MaxPackets * OPUS_FRAME_MS
    /\ ph.fin.path \in ph.removed

-----------------------------------------------------------------------------
(* Claims about the recording engine, checked under SpecRec *)

\* SD.open(..., FILE_WRITE) can give a file: the card takes new entries and
\* the TX directory exists
FileCreatable == sdOk /\ TX_DIR \in dirs

\* C12: startRecording(channel) returns false exactly when the engine was
\* already recording, when the card check fails, or when the file cannot be
\* created.  The caller tells the three apart: already recording leaves the
\* engine recording and the whole object as it was; no card leaves it idle
\* with lastError ERROR_NO_SD_CARD; a failed creation leaves it idle with
\* lastError ERROR_FILE_CREATE_FAILED.  In all three the recording state, the
\* open file and the next sequence number are as before the call.
ThmC12 ==
    rg.last = "start" =>
        /\ (ret = FALSE) <=> (rg.pre.recording \/ ~cardIn \/ ~FileCreatable)
        /\ ret = FALSE =>
              /\ rec.recording = rg.pre.recording
              /\ rec.currentFile = rg.pre.currentFile
              /\ rec.nextSequenceNumber = rg.pre.nextSequenceNumber
              /\ rg.pre.recording => rec.recording /\ rec = rg.pre
              /\ (~rg.pre.recording /\ ~cardIn) =>
                    ~rec.recording /\ rec.lastError = "ERROR_NO_SD_CARD"
              /\ (~rg.pre.recording /\ cardIn) =>
                    ~rec.recording /\ rec.lastError = "ERROR_FILE_CREATE_FAILED"

\* a start refused while recording, after an earlier one failed to create
\* its file
WitC12 ==
    /\ rg.last = "start" /\ ret = FALSE
    /\ rg.pre.recording
    /\ rec.lastError = "ERROR_FILE_CREATE_FAILED"

\* C13: when a packet write fails in processRecording, the call leaves the
\* engine idle with its file closed, the partial file still on the card,
\* lastError ERROR_WRITE_FAILED and the result false; and lastError, once
\* set, goes back to ERROR_NONE only by clearError().
PartialFileKept ==
    (rg.last = "process" /\ rg.aborted = "write") =>
        /\ ~rec.recording
        /\ ~rec.currentFile.open
        /\ rg.pre.currentFile.path \in DOMAIN sd
        /\ rg.pre.currentFile.path \in rg.closed
        /\ rec.lastError = "ERROR_WRITE_FAILED"
        /\ ret = FALSE

ThmC13 ==
    /\ []PartialFileKept
    /\ [][(rec.lastError # "ERROR_NONE" /\ rec'.lastError = "ERROR_NONE")
             => rg'.last = "clear"]_vars

\* an abort that leaves more than the header in the file
WitC13 ==
    /\ rg.last = "process" /\ rg.aborted = "write"
    /\ rg.pre.recording
    /\ Len(sd[rg.pre.currentFile.path]) > HEADER_SIZE

\* C14: when the encoder fails on a frame during processRecording, the call
\* stops the recording, sets lastError and returns false.
ClaimC14 ==
    (rg.last = "process" /\ rg.lost > 0) =>
        /\ ~rec.recording
        /\ rec.lastError = "ERROR_WRITE_FAILED"
        /\ ret = FALSE

\* C15: stopRecording() while recording closes the file, leaves the engine
\* idle, adds exactly 1 to the next sequence number and returns true; while
\* not recording it returns false and leaves the object as it was.
ThmC15 ==
    rg.last = "stop" =>
        IF rg.pre.recording
        THEN /\ ret = TRUE
             /\ ~rec.recording
             /\ ~rec.currentFile.open
             /\ rg.pre.currentFile.path \in rg.closed
             /\ rec.nextSequenceNumber = rg.pre.nextSequenceNumber + 1
             /\ rec.bytesWritten = rg.pre.bytesWritten
             /\ rec.packetCount = rg.pre.packetCount
        ELSE /\ ret = FALSE
             /\ rec = rg.pre

\* a recording with a packet in it, stopped
WitC15 ==
    /\ rg.last = "stop" /\ ret = TRUE
    /\ rg.written # <<>>
    /\ rec.nextSequenceNumber = 2

\* C16: a file is open for write exactly when the engine is recording, and
\* the files opened so far are the files closed so far plus the one of the
\* recording in progress: a start while recording opens none.
ThmC16 ==
    /\ rec.currentFile.open <=> rec.recording
    /\ rg.opens = Cardinality(rg.closed) + (IF rec.recording THEN 1 ELSE 0)

\* a start refused in the middle of a recording that has written a packet
WitC16 ==
    /\ rg.last = "start" /\ ret = FALSE
    /\ rec.recording
    /\ rec.packetCount > 0
    /\ rg.opens = 1

\* the bytes from pos on are complete [u16 length][payload] packets
RECURSIVE PacketLengths(_, _)
PacketLengths(bytes, pos) ==
    IF pos = Len(bytes) THEN <<>>
    ELSE IF pos + 2 > Len(bytes) THEN <<-1>>
    ELSE With(LE16(SubSeq(bytes, pos + 1, pos + 2)), LAMBDA n :
           IF pos + 2 + n > Len(bytes) THEN <<-1>>
           ELSE <<n>> \o PacketLengths(bytes, pos + 2 + n))

\* a container file: the header, then complete packets only
WholeContainer(bytes) ==
    /\ Len(bytes) >= HEADER_SIZE
    /\ SubSeq(bytes, 1, HEADER_SIZE) = OPUS_MAGIC \o <<1, 0>>
    /\ \A i \in DOMAIN PacketLengths(bytes, HEADER_SIZE) :
          PacketLengths(bytes, HEADER_SIZE)[i] > 0

\* C17: every file the engine has closed is the 6-byte header followed by
\* complete packets only.
ClaimC17 == \A p \in rg.closed : WholeContainer(sd[p])

RECURSIVE SumSizes(_)
SumSizes(lens) == IF lens = <<>> THEN 0 ELSE 2 + Head(lens) + SumSizes(Tail(lens))

\* C18: from the first recording on, getRecordingSize() is 6 plus the sum of
\* (2 + length) over the packets writePacket() has accepted since the last
\* successful startRecording().
ThmC18 == rg.opens > 0 => getRecordingSize(rec) = HEADER_SIZE + SumSizes(rg.written)

\* two packets of different sizes written
WitC18 == rec.recording /\ rg.written = <<1, 2>>

-----------------------------------------------------------------------------
(* Claims about the recording engine, checked under SpecBoot *)

\* the messages in the TX directory
IsTxPath(path) == StartsWith(path, TX_DIR \o <<SLASH>>)

\* the highest sequence number among the stored messages, or -1
StoredTxMax(store) == MaxOf({SeqOfPath(p) : p \in {q \in DOMAIN store : IsTxPath(q)}})

\* C11: after begin() returned true, the next sequence number is above the
\* highest sequence number of the messages stored in the TX directory.
ClaimC11 ==
    (rg.last = "begin" /\ ret = TRUE) => rec.nextSequenceNumber >= StoredTxMax(sd) + 1

-----------------------------------------------------------------------------
(* Claims about the round trip, checked under SpecTrip *)

\* the playback engine has the carried file open
TripOpen == pb.currentFile.open /\ pb.currentFile.path = TripPath

\* the playback engine finds in the carried file what the recording engine
\* reported of it: its header is accepted, the scan counts the packets
\* written, the durations agree
SameReport ==
    /\ TripPath \notin ph.abandoned
    /\ TripOpen =>
          /\ pb.totalPackets = rg.sentPackets
          /\ U32OfNat(getFileDuration(pb)) = rg.sentDuration
          /\ getFileDuration(pb) = rg.sentPackets * OPUS_FRAME_MS

-----------------------------------------------------------------------------
(* The roster under join, part and ping control messages *)

\* "U01" .. "U21": the users in the roster when the behaviour starts
RosterName(i) == <<85, 48 + (i \div 10), 48 + (i % 10)>>

\* how many users have joined before: none, or all but one place taken
PreJoined == {0, MAX_USERS - 1}

\* "AZZ...Z", as long as a name may be
LongName == [i \in 1..MAX_USERNAME_LEN |-> IF i = 1 THEN 65 ELSE 90]

\* "A", the long name that starts with it, and "U01"
RosterNames == {<<65>>, LongName, RosterName(1)}

RECURSIVE JoinAll(_, _, _)
JoinAll(s, i, k) == IF i > k THEN s ELSE JoinAll(addUser(s, RosterName(i)), i + 1, k)

\* the entries 0..userCount-1, as getUser() gives them
Roster(s) == [i \in 1..s.userCount |-> getUser(s, i - 1)]

RosterSet(s) == {getUser(s, i) : i \in 0..(s.userCount - 1)}

InitRoster ==
    /\ \E k \in PreJoined :
          /\ sp = JoinAll(begin(SerialProtocolCtor, TRUE, U32Zero), 1, k)
          /\ cur = [NoCur EXCEPT !.members = {RosterName(i) : i \in 1..k},
                                 !.admitted = {RosterName(i) : i \in 1..k}]
    /\ sd = EmptyStore
    /\ sdOk = TRUE
    /\ wire = <<>>
    /\ avail = <<>>
    /\ ret = FALSE
    /\ now = U32Zero
    /\ h = H0
    /\ clk = Clk0
    /\ pb = PlaybackEngineCtor
    /\ ph = Ph0
    /\ rec = RecordingEngineCtor
    /\ tx = <<>>
    /\ rg = Rg0
    /\ cardIn = TRUE
    /\ free = CardRoom
    /\ dirs = {}

ControlKind(type) ==
    IF type = MSG_TYPE_JOIN THEN "join" ELSE IF type = MSG_TYPE_PART THEN "part" ELSE "ping"

\* history: who is a member after the message, and who is one counting
\* only the joins that found a free place
MembersAfter(c, type, name) ==
    [c EXCEPT !.members = IF type = MSG_TYPE_JOIN THEN @ \union {name}
                          ELSE IF type = MSG_TYPE_PART THEN @ \ {name} ELSE @,
              !.admitted = IF type = MSG_TYPE_JOIN
                           THEN IF Cardinality(@) < MAX_USERS THEN @ \union {name} ELSE @
                           ELSE IF type = MSG_TYPE_PART THEN @ \ {name} ELSE @]

\* a control message arrives whole and processIncoming() reads it
Control(type, name) ==
    \E r \in {processIncoming([sp |-> sp, sd |-> sd, h |-> h],
                              ControlFrame(type, name), sdOk, now)} :
        /\ r.rest = <<>>
        /\ sp' = r.m.sp
        /\ h' = r.m.h
        /\ ret' = r.ret
        /\ cur' = [MembersAfter(cur, type, name) EXCEPT
                      !.kind = ControlKind(type), !.name = name,
                      !.roster0 = <<sp.users, sp.userCount, sp.userListChanged>>]
        /\ clk' = [clk EXCEPT !.sinceAct = U32Zero, !.sinceByte = U32Zero]
        /\ UNCHANGED <<tx, recOnly, pb, ph, sd, sdOk, wire, avail, now>>

\* the application has shown the roster and clears the flag
ClearUserListChanged ==
    /\ sp.userListChanged
    /\ sp' = clearUserListChanged(sp)
    /\ cur' = [cur EXCEPT !.kind = "clear"]
    /\ UNCHANGED <<tx, recOnly, pb, ph, sd, sdOk, wire, avail, ret, now, h, clk>>

NextRoster ==
    \/ \E type \in {MSG_TYPE_JOIN, MSG_TYPE_PART}, name \in RosterNames : Control(type, name)
    \/ Control(MSG_TYPE_PING, <<>>)
    \/ ClearUserListChanged

SpecRoster == InitRoster /\ [][NextRoster]_vars

-----------------------------------------------------------------------------
(* Claims about the roster, under SpecRoster *)

NoDuplicates(s) == \A i, j \in 0..(s.userCount - 1) : getUser(s, i) = getUser(s, j) => i = j

\* C21 as stated: after any sequence of join, part and ping messages the
\* roster has no duplicate names, at most MAX_USERS entries, and its entries
\* 0..userCount-1 are exactly the users who joined and have not parted.
ClaimC21 ==
    /\ NoDuplicates(sp)
    /\ sp.userCount <= MAX_USERS
    /\ RosterSet(sp) = cur.members

\* C21 amended: ... exactly the users who joined while the roster had a free
\* place and have not parted since.
ThmC21 ==
    /\ NoDuplicates(sp)
    /\ sp.userCount <= MAX_USERS
    /\ RosterSet(sp) = cur.admitted
    /\ sp.userCount = Cardinality(cur.admitted)

\* the roster is full, and a join was dropped for want of a place
WitC21 ==
    /\ sp.userCount = MAX_USERS
    /\ cur.kind = "join"
    /\ cur.name \notin RosterSet(sp)

RosterBefore == [users |-> cur.roster0[1], userCount |-> cur.roster0[2],
                 userListChanged |-> cur.roster0[3]]

RosterNow == <<sp.users, sp.userCount, sp.userListChanged>>

\* C22: a join for a name in the roster, and a part for a name not in it,
\* leave the roster and the changed flag as they were; the flag is set only
\* by a join or part that changes the roster.
ThmC22 ==
    cur.kind \in {"join", "part", "ping"} =>
        /\ (cur.kind = "join" /\ cur.name \in RosterSet(RosterBefore))
              => RosterNow = cur.roster0
        /\ (cur.kind = "part" /\ cur.name \notin RosterSet(RosterBefore))
              => RosterNow = cur.roster0
        /\ (sp.userListChanged /\ ~RosterBefore.userListChanged)
              => /\ cur.kind \in {"join", "part"}
                 /\ Roster(sp) # Roster(RosterBefore)

\* a second join of a user, with the flag cleared in between
WitC22 ==
    /\ cur.kind = "join"
    /\ cur.name \in RosterSet(RosterBefore)
    /\ ~sp.userListChanged
    /\ sp.userCount >= 2

Without(seq, name) == SelectSeq(seq, LAMBDA x : x # name)

\* C23: a part for a name in the roster removes that entry and no other,
\* keeps the others in their order in 0..userCount-1, takes one from the
\* count and marks the roster changed.
ThmC23 ==
    (cur.kind = "part" /\ cur.name \in RosterSet(RosterBefore)) =>
        /\ Roster(sp) = Without(Roster(RosterBefore), cur.name)
        /\ sp.userCount = RosterBefore.userCount - 1
        /\ sp.userListChanged
        /\ sp.users[RosterBefore.userCount] = <<>>

\* "A" parts from the middle of a roster that keeps the long name behind it
WitC23 ==
    /\ cur.kind = "part" /\ cur.name = <<65>>
    /\ <<65>> \in RosterSet(RosterBefore)
    /\ findUser(RosterBefore, <<65>>) < findUser(RosterBefore, LongName)
    /\ LongName \in RosterSet(sp)
    /\ sp.userCount >= 2
    /\ ~RosterBefore.userListChanged

-----------------------------------------------------------------------------
(* SerialProtocol: the sending side.  The methods yield their calls of      *)
(* serial->write(), each as the bytes it wrote.                             *)

TX_HEADER_SIZE == 7
LOG_CHANNEL == 254
LOG_MAX_LEN == 255
LOG_BUFFER_SIZE == 256
SEND_CHUNK_SIZE == 256

\* "SerialProtocol initialized"
LOG_INITIALIZED == <<83, 101, 114, 105, 97, 108, 80, 114, 111, 116, 111, 99, 111, 108, 32,
                     105, 110, 105, 116, 105, 97, 108, 105, 122, 101, 100>>
\* "Failed to open file: "
LOG_OPEN_FAILED == <<70, 97, 105, 108, 101, 100, 32, 116, 111, 32, 111, 112, 101, 110, 32,
                     102, 105, 108, 101, 58, 32>>
\* "File too large: "
LOG_TOO_LARGE == <<70, 105, 108, 101, 32, 116, 111, 111, 32, 108, 97, 114, 103, 101, 58, 32>>
\* "Sent file: "
LOG_SENT_FILE == <<83, 101, 110, 116, 32, 102, 105, 108, 101, 58, 32>>
\* " (" and " bytes)"
LOG_SENT_OPEN == <<32, 40>>
LOG_SENT_BYTES == <<32, 98, 121, 116, 101, 115, 41>>

\* mutant: the length goes out high byte first
TxHeader_BigEndian(len, selector) ==
    <<SYNC_BYTE_1, SYNC_BYTE_2,
      (len \div 16777216) % 256, (len \div 65536) % 256, (len \div 256) % 256, len % 256,
      selector>>

\* header[0..6]: sync, the length low byte first, the selector
TxHeader(len, selector) ==
    <<SYNC_BYTE_1, SYNC_BYTE_2,
      len % 256, (len \div 256) % 256, (len \div 65536) % 256, (len \div 16777216) % 256,
      selector>>

\* SerialProtocol::sendLog(message): the header, then the text
sendLog(s, message) ==
    IF ~s.serial THEN <<>>
    ELSE With(IF Len(message) > LOG_MAX_LEN THEN LOG_MAX_LEN ELSE Len(message), LAMBDA len :
           <<TxHeader(len, LOG_CHANNEL), SubSeq(message, 1, len)>>)

\* SerialProtocol::sendLogf(format, ...), the text already formatted
sendLogf(s, text) == sendLog(s, Snprintf(LOG_BUFFER_SIZE, text))

\* fileSize > MAX_FILE_SIZE
TooLarge(fileSize) == U32Gt(U32OfNat(fileSize), MAX_FILE_SIZE)

\* mutant: the header has gone out when the size is found too large
RejectTooLarge_HeaderFirst(s, fileSize, channel) ==
    [ret |-> FALSE,
     out |-> <<<<SYNC_BYTE_1, SYNC_BYTE_2,
                 fileSize % 256, (fileSize \div 256) % 256, (fileSize \div 65536) % 256,
                 (fileSize \div 16777216) % 256, channel>>,
               <<SYNC_BYTE_1, SYNC_BYTE_2, 21, 0, 0, 0, LOG_CHANNEL>>,
               LOG_TOO_LARGE \o Dec(fileSize)>>]

\* sendFile() when the file is too large: log it, close the file, return false
RejectTooLarge(s, fileSize, channel) ==
    [ret |-> FALSE, out |-> sendLogf(s, LOG_TOO_LARGE \o Dec(fileSize))]

\* the k-th pass of `while (file.available())`: file.read(buffer, 256) at
\* the position the passes before have left
ReadChunk(store, file, k) ==
    FileRead(store, [file EXCEPT !.pos = (k - 1) * SEND_CHUNK_SIZE], SEND_CHUNK_SIZE).data

\* while (file.available()) { read a chunk; write it }: one write per pass
SendChunks(store, file) ==
    [k \in 1..((FileSize(store, file) + SEND_CHUNK_SIZE - 1) \div SEND_CHUNK_SIZE) |->
        ReadChunk(store, file, k)]

\* SerialProtocol::sendFile(filepath, channel): the result and the writes
sendFile(s, store, filepath, channel) ==
    IF ~s.serial THEN [ret |-> FALSE, out |-> <<>>]
    ELSE With(SdOpenRead(store, filepath), LAMBDA file :
      IF ~file.open
      THEN [ret |-> FALSE, out |-> sendLogf(s, LOG_OPEN_FAILED \o filepath)]
      ELSE With(FileSize(store, file), LAMBDA fileSize :
        IF TooLarge(fileSize)
        THEN RejectTooLarge(s, fileSize, channel)
        ELSE [ret |-> TRUE,
              out |-> <<TxHeader(fileSize, channel)>> \o SendChunks(store, file)
                        \o sendLogf(s, LOG_SENT_FILE \o filepath \o LOG_SENT_OPEN
                                         \o Dec(fileSize) \o LOG_SENT_BYTES)]))

-----------------------------------------------------------------------------
(* The sender under its callers *)

MaxSends == 3          \* calls that may write to the serial port, per behaviour

\* n bytes that show their position
SendContent(n) == [i \in 1..n |-> (i * 7) % 251]

\* a file of n bytes: a chunk and a byte that show their position, then zeros
LongContent(n) == SendContent(SEND_CHUNK_SIZE + 1) \o <<(SEND_CHUNK_SIZE + 1) - n>>

\* the file to send: empty, around one chunk, around MAX_FILE_SIZE
SendFiles ==
    {SendContent(n) : n \in {0, 1, SEND_CHUNK_SIZE, SEND_CHUNK_SIZE + 1}}
        \union {LongContent(n) : n \in {65535, 65536, 65537}}

SendPath == StoredPath(1)
MissingPath == StoredPath(2)

\* selectors the application passes
SendChannels == {1, NUM_CHANNELS}

\* log messages of the application: short, and longer than a log frame takes
LogTexts == {<<72, 105>>, [i \in 1..(LOG_MAX_LEN + 1) |-> 76]}

\* the protocol object as constructed, or after begin() on the serial port
InitSend ==
    /\ \E begun \in BOOLEAN :
          /\ sp = IF begun THEN begin(SerialProtocolCtor, TRUE, U32Zero)
                           ELSE SerialProtocolCtor
          /\ tx = IF begun THEN sendLog(begin(SerialProtocolCtor, TRUE, U32Zero),
                                        LOG_INITIALIZED)
                           ELSE <<>>
          /\ now = IF begun THEN <<0, BEGIN_DELAY_MS>> ELSE U32Zero
          /\ clk = IF begun THEN Elapse(Clk0, <<0, BEGIN_DELAY_MS>>) ELSE Clk0
          /\ ret = begun
    /\ \E c \in SendFiles : sd = (SendPath :> c)
    /\ sdOk = TRUE
    /\ wire = <<>>
    /\ avail = <<>>
    /\ h = H0
    /\ cur = NoCur
    /\ pb = PlaybackEngineCtor
    /\ ph = Ph0
    /\ rec = RecordingEngineCtor
    /\ rg = Rg0
    /\ cardIn = TRUE
    /\ free = CardRoom
    /\ dirs = {}

notSend == <<sd, sdOk, wire, avail, h, pb, ph, recOnly>>

\* history of a call: what it was, and how many writes there were before
SendCall(kind, path, channel) ==
    [cur EXCEPT !.kind = kind, !.name = path, !.ch = channel, !.left = Len(tx),
                !.completed0 = cur.completed0 + 1]

\* the application calls begin(), which logs that it is ready
BeginSend(serialPort) ==
    /\ ~sp.serial
    /\ cur.completed0 < MaxSends
    /\ sp' = begin(sp, serialPort, now)
    /\ tx' = tx \o sendLog(sp', LOG_INITIALIZED)
    /\ ret' = serialPort
    /\ now' = IF serialPort THEN U32Add(now, <<0, BEGIN_DELAY_MS>>) ELSE now
    /\ clk' = IF serialPort
              THEN Elapse([clk EXCEPT !.sinceAct = U32Zero], <<0, BEGIN_DELAY_MS>>)
              ELSE clk
    /\ cur' = SendCall("begin", <<>>, 0)
    /\ UNCHANGED notSend

\* the application sends a recording
SendFile(filepath, channel) ==
    /\ cur.completed0 < MaxSends
    /\ \E r \in {sendFile(sp, sd, filepath, channel)} :
          /\ tx' = tx \o r.out
          /\ ret' = r.ret
    /\ cur' = SendCall("sendFile", filepath, channel)
    /\ UNCHANGED <<sp, now, clk, notSend>>

\* the application logs a line
SendLog(message) ==
    /\ cur.completed0 < MaxSends
    /\ tx' = tx \o sendLog(sp, message)
    /\ cur' = SendCall("sendLog", message, LOG_CHANNEL)
    /\ UNCHANGED <<sp, ret, now, clk, notSend>>

NextSend ==
    \/ \E port \in BOOLEAN : BeginSend(port)
    \/ \E path \in {SendPath, MissingPath}, channel \in SendChannels : SendFile(path, channel)
    \/ \E message \in LogTexts : SendLog(message)

SpecSend == InitSend /\ [][NextSend]_vars

-----------------------------------------------------------------------------
(* Claims about sendFile, under SpecSend *)

\* the bytes of the writes a..b, in the order they went out
RECURSIVE WireBytes(_, _, _)
WireBytes(writes, a, b) ==
    IF a > b THEN <<>>
    ELSE IF a = b THEN writes[a]
    ELSE WireBytes(writes, a, (a + b) \div 2) \o WireBytes(writes, (a + b) \div 2 + 1, b)

\* what the last call wrote to the serial port
Sent == WireBytes(tx, cur.left + 1, Len(tx))

\* all the bytes of a file content
FileBytes(c) == [i \in 1..ContentLen(c) |-> ByteAt(c, i)]

\* a log frame: header with the log selector, then the text
LogFrame(text) == <<SYNC_BYTE_1, SYNC_BYTE_2>> \o LE4(Len(text)) \o <<LOG_CHANNEL>> \o text

SentFileCall == cur.kind = "sendFile" /\ sp.serial /\ cur.name \in DOMAIN sd

\* C24 as stated: sendFile on a file larger than 65536 bytes returns false
\* and no byte has been written to the serial port.
ClaimC24 ==
    (SentFileCall /\ ContentLen(sd[cur.name]) > 65536) =>
        /\ ret = FALSE
        /\ Sent = <<>>

\* C24 amended: ... returns false without sending a file frame; all it writes
\* to the serial port is one log frame "File too large: <size>".
ThmC24 ==
    (SentFileCall /\ ContentLen(sd[cur.name]) > 65536) =>
        /\ ret = FALSE
        /\ Sent = LogFrame(LOG_TOO_LARGE \o Dec(ContentLen(sd[cur.name])))

WitC24 == SentFileCall /\ ContentLen(sd[cur.name]) = 65537 /\ Len(Sent) > 0

\* the receiver's accumulation gives back every length the sender may write
LengthRoundTrip ==
    \A S \in 0..65536 : LengthOfBytes(SubSeq(TxHeader(S, 0), 3, 6)) = U32OfNat(S)

\* C25: sendFile on a file of S <= 65536 bytes writes AA 55, S in 4 bytes low
\* byte first, the selector, then the S bytes of the file, and returns true;
\* the receiver's accumulation of the 4 length bytes gives S.  The log frame
\* "Sent file: ..." follows the payload.
ThmC25 ==
    /\ LengthRoundTrip
    /\ (SentFileCall /\ ContentLen(sd[cur.name]) <= 65536) =>
          LET S == ContentLen(sd[cur.name])
          IN  /\ ret = TRUE
              /\ Len(Sent) >= TX_HEADER_SIZE + S
              /\ SubSeq(Sent, 1, TX_HEADER_SIZE)
                    = <<SYNC_BYTE_1, SYNC_BYTE_2>> \o LE4(S) \o <<cur.ch>>
              /\ SubSeq(Sent, TX_HEADER_SIZE + 1, TX_HEADER_SIZE + S) = FileBytes(sd[cur.name])
              /\ LengthOfBytes(SubSeq(Sent, 3, 6)) = U32OfNat(S)
              /\ SubSeq(Sent, TX_HEADER_SIZE + S + 1, Len(Sent))
                    = LogFrame(LOG_SENT_FILE \o cur.name \o LOG_SENT_OPEN
                                 \o Dec(S) \o LOG_SENT_BYTES)

\* a file of exactly MAX_FILE_SIZE bytes has been sent
WitC25 ==
    /\ SentFileCall /\ ContentLen(sd[cur.name]) = 65536
    /\ ret = TRUE /\ Len(Sent) > 65536

-----------------------------------------------------------------------------
(* Claims about the received-file accessors, under SpecRx *)

getReceivedChannel(s) == s.rxChannel

getReceivedFilePath(s) == s.rxFilePath

getReceivedUsername(s) == CStr(s.rxUsername)

\* processIncoming has just returned true for the audio frame sent last
FrameCompleted ==
    /\ cur.kind = "audio" /\ cur.inSync /\ cur.ended /\ h.lastOpen = "ok"
    /\ ret = TRUE

\* the channel and the path of the completed frame are the ones reported
ReceivedChannelAndPath ==
    FrameCompleted =>
        /\ getReceivedChannel(sp) = cur.ch
        /\ getReceivedFilePath(sp) \in DOMAIN sd
        /\ Written = cur.payload

\* C26 as stated: after processIncoming returns true, getReceivedChannel is
\* the selector of the completed frame, getReceivedFilePath the path it was
\* stored at, and getReceivedUsername the username the frame carried.
ClaimC26 ==
    /\ ReceivedChannelAndPath
    /\ FrameCompleted => getReceivedUsername(sp) = cur.name

\* what the code does: the username reported after a completed frame is empty
ReceivedUsernameEmpty == FrameCompleted => getReceivedUsername(sp) = <<>>

\* a frame with a username has been completed
NamedFrameCompleted == FrameCompleted /\ cur.name # <<>>

-----------------------------------------------------------------------------
(* Loading a queue: directories of a few files in every listing order, and  *)
(* one directory with more files than a queue takes                         *)

\* what channel 1's directory may hold on a small card
SmallPaths == {QueuePath(0, 0), QueuePath(0, 1), QueuePath(0, 2), OtherFile}

SmallCards ==
    {[p \in P \union {QueuePath(1, 0)} |-> IF p = OtherFile THEN <<1>> ELSE ValidFile(1)] :
        P \in SUBSET SmallPaths}

\* one file more than MAX_FILES_PER_CHANNEL in channel 1's directory
FullOrderUp == [i \in 1..(MAX_FILES_PER_CHANNEL + 1) |-> QueuePath(0, i - 1)]

FullOrderDown == [i \in 1..(MAX_FILES_PER_CHANNEL + 1) |->
                     QueuePath(0, MAX_FILES_PER_CHANNEL + 1 - i)]

FullCard ==
    [p \in {FullOrderUp[i] : i \in 1..(MAX_FILES_PER_CHANNEL + 1)} |-> ValidFile(0)]

\* the listing orders tried: all of them for a small directory, the names
\* upwards and downwards for the full one
LoadOrders(store, channel) ==
    IF DirEntries(store, DirPathOf(channel)) = DOMAIN FullCard
    THEN {FullOrderUp, FullOrderDown}
    ELSE DirOrders(store, DirPathOf(channel))

InitLoad ==
    /\ InitEngine
    /\ sd \in SmallCards \union {FullCard}

\* the user selects a channel; history: the channel, the result and whether
\* there was a queue before
LoadChannel(channel, order) ==
    /\ \E r \in {loadChannelQueue(pb, channel, order)} :
          /\ pb' = r.e
          /\ ret' = r.ret
          /\ ph' = [ph EXCEPT !.load = [channel |-> channel, ret |-> r.ret,
                                        replaced |-> pb.fileCount > 0]]
    /\ UNCHANGED <<sd, rxOnly>>

NextLoad ==
    \/ \E channel \in PlayChannels :
          \E order \in LoadOrders(sd, channel) : LoadChannel(channel, order)
    \/ StartPlayback
    \/ StopPlayback
    \/ PausePlayback
    \/ ResumePlayback

SpecLoad == InitLoad /\ [][NextLoad]_vars

\* the container files of a channel's directory
OpusEntries(store, channel) ==
    {p \in DirEntries(store, DirPathOf(channel)) : EndsWith(p, DOT_OPUS)}

QueueOf(e) == {e.fileList[i] : i \in 1..Len(e.fileList)}

\* a queue as loadChannelQueue(channel) is to leave it
LoadedQueue(e, store, channel) ==
    /\ e.currentChannel = channel
    /\ e.fileCount = Len(e.fileList)
    /\ e.fileCount = Min(Cardinality(OpusEntries(store, channel)), MAX_FILES_PER_CHANNEL)
    /\ QueueOf(e) \subseteq OpusEntries(store, channel)
    /\ \A i \in 1..(Len(e.fileList) - 1) : StrLess(e.fileList[i], e.fileList[i + 1])
    /\ e.currentFileIndex = 0

\* C27: a loadChannelQueue(c) that returns true leaves a queue of the .opus
\* files of channel c's directory, all of them up to MAX_FILES_PER_CHANNEL,
\* in ascending order and nothing else (no entry of the queue before), with
\* the play index at the first entry; it returns true whenever the directory
\* exists, with an empty queue when it holds no .opus file.  Starting,
\* stopping, pausing and resuming leave the queue as loaded.
ThmC27 ==
    ph.load.channel >= 0 =>
        /\ ph.load.ret = DirExists(DirPathOf(ph.load.channel))
        /\ ph.load.ret => LoadedQueue(pb, sd, ph.load.channel)
        /\ (ph.load.ret /\ OpusEntries(sd, ph.load.channel) = {}) =>
              pb.fileList = <<>> /\ pb.fileCount = 0

\* a full queue loaded from the directory with one file too many, listed
\* downwards, over the queue of another listing
WitC27 ==
    /\ ph.load.channel = 0 /\ ph.load.ret
    /\ ph.load.replaced
    /\ pb.fileCount = MAX_FILES_PER_CHANNEL
    /\ Cardinality(OpusEntries(sd, 0)) = MAX_FILES_PER_CHANNEL + 1
    /\ pb.fileList[1] = QueuePath(0, 1)
    /\ LoadedQueue(pb, sd, 0)

\* an empty directory gives true and an empty queue, over a queue loaded before
WitC27Empty ==
    /\ ph.load.channel = 0 /\ ph.load.ret
    /\ OpusEntries(sd, 0) = {}
    /\ ph.load.replaced
    /\ pb.fileList = <<>>

-----------------------------------------------------------------------------
(* Playback while time passes, fed to a sink of any appetite *)

HungrySink == 1000     \* free blocks of a sink that takes all it is given

\* free blocks of the sink at a call: none, one, more than can be played
FeedRooms == {0, 1, HungrySink}

\* a pause as long as a packet, and as long as the clock's range less 1 ms
PauseLengths == {<<0, OPUS_FRAME_MS>>, <<65535, 65535>>}

InitFeed ==
    /\ InitEngine
    /\ \E b \in {ValidFile(1), Undecodable} :
          sd = (QueuePath(0, 0) :> ValidFile(MaxPackets)) @@ (QueuePath(0, 1) :> b)

\* history of a call: which, and for processPlayback the iterations of its
\* loop, the free blocks of the sink and the blocks the sink was given
NoteCall(hist, call, loops, room, pushed) ==
    [hist EXCEPT !.call = call, !.loops = loops, !.room = room, !.pushed = pushed,
                 !.tries = IF call = "process" THEN @ ELSE 0,
                 !.block = IF call = "stop" THEN NoBlock ELSE @,
                 !.next = IF call = "stop" THEN 0 ELSE @]

FeedLoad(order) ==
    /\ \E r \in {loadChannelQueue(pb, 0, order)} :
          /\ pb' = r.e
          /\ ret' = r.ret
    /\ ph' = NoteCall(ph, "load", 0, 0, 0)
    /\ UNCHANGED <<sd, rxOnly>>

FeedStart ==
    /\ \E r \in {startPlayback(Machine, TRUE, now)} :
          /\ pb' = r.q.pb
          /\ ph' = NoteCall(r.q.ph, "start", 0, 0, 0)
          /\ ret' = r.ok
    /\ UNCHANGED <<sd, rxOnly>>

\* the control loop calls processPlayback()
Feed(room) ==
    /\ \E r \in {processPlayback(Machine, TRUE, room, now)} :
          /\ pb' = r.q.pb
          /\ sd' = r.q.sd
          /\ ph' = NoteCall(r.q.ph, "process", r.loops, room, r.pushed)
          /\ ret' = r.ret
    /\ UNCHANGED rxOnly

FeedStop ==
    /\ pb' = stopPlayback(pb)
    /\ ret' = TRUE
    /\ ph' = NoteCall(ph, "stop", 0, 0, 0)
    /\ UNCHANGED <<sd, rxOnly>>

FeedPause ==
    /\ \E r \in {pausePlayback(pb)} :
          /\ pb' = r.e
          /\ ret' = r.ok
    /\ ph' = NoteCall(ph, "pause", 0, 0, 0)
    /\ UNCHANGED <<sd, rxOnly>>

FeedResume ==
    /\ \E r \in {resumePlayback(pb, now)} :
          /\ pb' = r.e
          /\ ret' = r.ok
    /\ ph' = NoteCall(ph, "resume", 0, 0, 0)
    /\ UNCHANGED <<sd, rxOnly>>

NextFeed ==
    \/ \E order \in DirOrders(sd, DirPathOf(0)) : FeedLoad(order)
    \/ FeedStart
    \/ \E room \in FeedRooms : Feed(room)
    \/ FeedStop
    \/ FeedPause
    \/ FeedResume
    \/ \E d \in PauseLengths : Tick(d)

SpecFeed == InitFeed /\ [][NextFeed]_vars

-----------------------------------------------------------------------------
(* Claims about pausing, the position and the feed loop, under SpecFeed *)

Playing == pb.state = "PLAYBACK_PLAYING"

Paused == pb.state = "PLAYBACK_PAUSED"

\* C28: pausePlayback returns true only from Playing and then only moves the
\* state to Paused; resumePlayback returns true only from Paused and then
\* moves the state to Playing (and resets playbackStartTime); from any other
\* state each returns false and leaves the engine as it was; while Paused
\* processPlayback returns false without a pass of its loop: no block goes
\* to the sink, no packet is decoded, engine and card stay as they were.
ThmC28 ==
    [][/\ FeedPause =>
             IF Playing THEN ret' /\ pb' = [pb EXCEPT !.state = "PLAYBACK_PAUSED"]
             ELSE ~ret' /\ pb' = pb
       /\ FeedResume =>
             IF Paused
             THEN /\ ret'
                  /\ [pb' EXCEPT !.playbackStartTime = pb.playbackStartTime]
                        = [pb EXCEPT !.state = "PLAYBACK_PLAYING"]
             ELSE ~ret' /\ pb' = pb
       /\ (Paused /\ \E room \in FeedRooms : Feed(room)) =>
             /\ ~ret'
             /\ pb' = pb /\ sd' = sd
             /\ ph'.decodes = ph.decodes
             /\ ph'.pushed = 0 /\ ph'.loops = 0]_vars

\* processPlayback was called while Paused, with audio buffered and a sink
\* that takes all, and did nothing
WitC28 ==
    /\ Paused /\ ph.call = "process" /\ ph.room = HungrySink
    /\ pb.outputBufferPos < pb.outputBufferCount
    /\ ret = FALSE /\ ph.pushed = 0

\* C29: while Playing or Paused the position reported is 20 ms times the
\* packets decoded from the file; time that passes, a pause and a resume
\* leave it as it was.
ThmC29 ==
    /\ []((Playing \/ Paused) => getPlaybackPosition(pb) = ph.decodes * OPUS_FRAME_MS)
    /\ [][(FeedPause \/ FeedResume \/ \E d \in PauseLengths : Tick(d)) =>
              getPlaybackPosition(pb)' = getPlaybackPosition(pb)]_vars

\* resumed after the clock has gone through nearly all its range, with
\* packets played
WitC29 ==
    /\ Playing /\ ph.call = "resume" /\ ret = TRUE
    /\ now[1] = 65535
    /\ ph.decodes > 0
    /\ getPlaybackPosition(pb) = ph.decodes * OPUS_FRAME_MS

\* C30: a call of processPlayback makes at most LOOP_LIMIT (10) passes of
\* its feed loop, whatever the sink takes and whatever is queued.
ThmC30 ==
    ph.call = "process" =>
        /\ ph.loops <= LOOP_LIMIT
        /\ ph.pushed <= ph.loops

\* the loop was left at the limit: the sink would take more, audio is
\* buffered and another file is queued
WitC30 ==
    /\ ph.call = "process" /\ ph.room = HungrySink
    /\ ph.loops = LOOP_LIMIT
    /\ ret = TRUE /\ Playing
    /\ ph.pushed < ph.room
    /\ pb.outputBufferPos < pb.outputBufferCount
    /\ pb.currentFileIndex + 1 < pb.fileCount

-----------------------------------------------------------------------------
(* The recording loop under every outcome of the encoder *)

\* a packet of the largest size opus_encode() may give
FullPacket == [i \in 1..OPUS_MAX_PACKET_SIZE |-> 9]

\* what opus_encode() returns for a frame: an error, a packet of size 0, of
\* size 1, of the largest size
EncOutcomes == {<<-1>>, <<>>, <<9>>, FullPacket}

\* the outcomes of the opus_encode() calls of one processRecording()
EncPlans == {<<a, b>> : a, b \in EncOutcomes}

\* blocks the queue holds at a call: none, one, a frame's worth, one more
EncBlockCounts == {0, 1, 7, 8}

\* the control loop calls processRecording(); a call that never leaves its
\* loop does not return, and nothing is called after it
Record(blocks, enc) ==
    /\ rg.blocks + blocks <= MaxBlocks
    /\ \E r \in {processRecording(RecMachine("process"), blocks, enc, cardIn)} :
          /\ RecDone(r.m)
          /\ ret' = IF r.m.rg.hung THEN ret ELSE r.ret
    /\ UNCHANGED notRec

NextEnc ==
    \/ \E created \in BOOLEAN : ~rg.hung /\ RecBegin(created)
    \/ \E channel \in RecChannels : ~rg.hung /\ StartRecording(channel)
    \/ \E blocks \in EncBlockCounts, enc \in EncPlans : ~rg.hung /\ Record(blocks, enc)
    \/ ~rg.hung /\ StopRecording

SpecEnc == InitRec /\ [][NextEnc]_vars

\* C31 as stated: every call of processRecording returns, whatever the
\* encoder reported for a frame (an error, or a packet of size 0 up to the
\* largest).
ClaimC31 == ~rg.hung

\* a call stays in its loop only over a packet of size 0
HungOnEmptyPacket ==
    rg.hung =>
        /\ rec.recording
        /\ rec.codec.packetReady
        /\ rec.codec.encodedPacketSize = 0

\* calls have returned after an encoder error and after a packet of the
\* largest size
ReturnedOnOthers ==
    /\ ~rg.hung /\ rg.last = "process"
    /\ rg.frames > 0

-----------------------------------------------------------------------------
(* Channels: the directory a received message goes to and the directory a   *)
(* channel's queue is loaded from                                           *)

MaxStored == 2         \* audio frames received per behaviour

\* selector values of the frames received: 0, those of the N channels
Selectors == 0..NUM_CHANNELS

\* the directories begin() creates on a card that takes them
StartupDirs ==
    createDirectories([RecordingEngineCtor EXCEPT !.sdCardPresent = TRUE], {}, TRUE)

\* the directory openRxFile() names for a selector value
RxDirOf(selector) == RX_DIR_PREFIX \o Dec(selector)

\* after setup(): begin() has been called on the serial port, the card is empty
InitChan ==
    /\ sp = begin(SerialProtocolCtor, TRUE, U32Zero)
    /\ sd = EmptyStore
    /\ sdOk = TRUE
    /\ wire = <<>>
    /\ avail = <<>>
    /\ ret = TRUE
    /\ now = <<0, BEGIN_DELAY_MS>>
    /\ h = H0
    /\ cur = NoCur
    /\ clk = Elapse(Clk0, <<0, BEGIN_DELAY_MS>>)
    /\ pb = PlaybackEngineCtor
    /\ ph = Ph0
    /\ rec = RecordingEngineCtor
    /\ tx = <<>>
    /\ rg = Rg0
    /\ cardIn = TRUE
    /\ free = CardRoom
    /\ dirs = StartupDirs

\* a whole audio frame arrives and is read; SD.open() gives a file when the
\* directory of the path exists
ReceiveOn(selector, name) ==
    /\ h.completed + cur.garbage < MaxStored
    /\ \E r \in {processIncoming([sp |-> sp, sd |-> sd, h |-> h],
                                 AudioFrame(selector, name, Payload(1)),
                                 RxDirOf(selector) \in dirs, now)} :
          /\ r.rest = <<>>
          /\ sp' = r.m.sp
          /\ sd' = r.m.sd
          /\ h' = r.m.h
          /\ ret' = r.ret
    /\ cur' = [cur EXCEPT !.kind = "audio", !.ch = selector, !.name = name,
                          !.garbage = IF RxDirOf(selector) \in dirs THEN @ ELSE @ + 1]
    /\ ph' = [ph EXCEPT !.load = NoLoad]
    /\ UNCHANGED <<pb, sdOk, wire, avail, now, clk, recOnly, tx>>

NextChan ==
    \/ \E selector \in Selectors, name \in Names : ReceiveOn(selector, name)
    \/ \E channel \in 0..(NUM_CHANNELS - 1) :
          \E order \in DirOrders(sd, DirPathOf(channel)) : LoadChannel(channel, order)

SpecChan == InitChan /\ [][NextChan]_vars

\* the message received last is on the card in the directory of channel c
StoredFor(c) ==
    /\ h.lastOpen = "ok"
    /\ sp.rxFilePath \in DirEntries(sd, DirPathOf(c))
    /\ sd[sp.rxFilePath] = Payload(1)

\* the queue of channel c was loaded after the message was received
LoadedAfter(c) == ph.load.channel = c /\ ph.load.ret

\* C32 as stated, with the selector space 0..N-1 of the wire format: a frame
\* received with selector value c is stored in the directory that
\* loadChannelQueue(c) lists, and is in channel c's queue once loaded.
ClaimC32 ==
    (cur.kind = "audio" /\ cur.ch \in 0..(NUM_CHANNELS - 1)) =>
        /\ StoredFor(cur.ch)
        /\ LoadedAfter(cur.ch) => sp.rxFilePath \in QueueOf(pb)

\* C32 amended: channel c in 0..N-1 has the directory /RX/CH<c+1>, which
\* startup creates, and the selector value c + 1: a frame received with
\* selector value c + 1 is stored in that directory and in no other
\* channel's, and is in channel c's queue once that is loaded; a frame with
\* selector value 0 is stored nowhere.
ThmC32 ==
    /\ \A c \in 0..(NUM_CHANNELS - 1) : DirPathOf(c) \in StartupDirs
    /\ (cur.kind = "audio" /\ cur.ch \in 1..NUM_CHANNELS) =>
          /\ StoredFor(cur.ch - 1)
          /\ \A c \in 0..(NUM_CHANNELS - 1) :
                c # cur.ch - 1 => sp.rxFilePath \notin DirEntries(sd, DirPathOf(c))
          /\ \A c \in 0..(NUM_CHANNELS - 1) :
                LoadedAfter(c) => (sp.rxFilePath \in QueueOf(pb) <=> c = cur.ch - 1)
    /\ (cur.kind = "audio" /\ cur.ch = 0) =>
          /\ h.lastOpen = "fail"
          /\ sp.rxFilePath \notin DOMAIN sd

\* a message received with selector value N is in the queue of channel N-1
WitC32 ==
    /\ cur.kind = "audio" /\ cur.ch = NUM_CHANNELS
    /\ LoadedAfter(NUM_CHANNELS - 1)
    /\ StoredFor(NUM_CHANNELS - 1)
    /\ sp.rxFilePath \in QueueOf(pb)

-----------------------------------------------------------------------------
(* Opening files of any content for playback *)

\* the valid container of one packet with byte i of its header changed
HeaderFlip(i) == [ValidFile(1) EXCEPT ![i] = (@ + 1) % 256]

\* the first k bytes of the header and nothing else
HeaderCut(k) == SubSeq(FileHeader, 1, k)

\* a packet of OPUS_MAX_PACKET_SIZE bytes, the longest one counted
MaxPacket == <<OPUS_MAX_PACKET_SIZE % 256, OPUS_MAX_PACKET_SIZE \div 256>>
                 \o [j \in 1..OPUS_MAX_PACKET_SIZE |-> 9]

\* a packet stream ending in a single byte
OddTail == ValidFile(1) \o <<2>>

OpenImages ==
    {HeaderFlip(i) : i \in 1..HEADER_SIZE}
        \union {HeaderCut(k) : k \in 0..(HEADER_SIZE - 1)}
        \union ValidImages \union FaultyImages
        \union {FileHeader \o MaxPacket \o GoodPacket, OddTail}

InitOpen ==
    /\ InitEngine
    /\ \E b \in OpenImages :
          sd = (QueuePath(0, 0) :> b) @@ (QueuePath(0, 1) :> ValidFile(1))

NextOpen ==
    \/ \E order \in DirOrders(sd, DirPathOf(0)) : FeedLoad(order)
    \/ FeedStart
    \/ \E room \in FeedRooms : Feed(room)
    \/ FeedStop

SpecOpen == InitOpen /\ [][NextOpen]_vars

\* startPlayback() was called with a queue and has tried to open its file
StartedOn(path) ==
    /\ ph.call = "start"
    /\ pb.currentFileIndex < pb.fileCount
    /\ pb.fileList[pb.currentFileIndex + 1] = path

\* the file was taken for playback: startPlayback() returned true, the file
\* is open and the engine is playing
Accepted == ret /\ pb.currentFile.open /\ pb.state = "PLAYBACK_PLAYING"

\* C33 as stated: a file is accepted for playback exactly when its first six
\* bytes are the header the recorder writes ('O','P','U','S',0x01,0x00); a
\* file shorter than six bytes or differing in any header byte is rejected.
ClaimC33 ==
    \A path \in DOMAIN sd :
        StartedOn(path) =>
            (Accepted <=> /\ Len(sd[path]) >= HEADER_SIZE
                          /\ SubSeq(sd[path], 1, HEADER_SIZE) = FileHeader)

\* what the code does: six bytes must be there and the first four are compared
MagicOnly ==
    \A path \in DOMAIN sd :
        StartedOn(path) =>
            (Accepted <=> /\ Len(sd[path]) >= HEADER_SIZE
                          /\ SubSeq(sd[path], 1, 4) = OPUS_MAGIC)

\* a file with version byte 2 is open for playback
WrongVersionAccepted ==
    /\ StartedOn(QueuePath(0, 0))
    /\ Accepted
    /\ sd[QueuePath(0, 0)] = HeaderFlip(5)

\* the packets of a stream as the container defines them: records of a
\* 2-byte size in 1..OPUS_MAX_PACKET_SIZE and as many bytes, counted up to
\* the first record that is not one
RECURSIVE WellFormedPackets(_)
WellFormedPackets(data) ==
    IF Len(data) < 2 THEN 0
    ELSE IF data[1] + 256 * data[2] \notin 1..OPUS_MAX_PACKET_SIZE THEN 0
    ELSE IF Len(data) < 2 + data[1] + 256 * data[2] THEN 0
    ELSE 1 + WellFormedPackets(SubSeq(data, 3 + data[1] + 256 * data[2], Len(data)))

\* C35: after a playback open succeeds, the total-packet count equals the
\* number of consecutive well-formed packets from offset 6, the read
\* position is offset 6, the packets-played count is 0 and the residual
\* output buffer is empty.
ThmC35 ==
    \A path \in DOMAIN sd :
        (StartedOn(path) /\ Accepted) =>
            /\ pb.totalPackets =
                  WellFormedPackets(SubSeq(sd[path], HEADER_SIZE + 1, Len(sd[path])))
            /\ pb.currentFile.path = path
            /\ pb.currentFile.pos = HEADER_SIZE
            /\ pb.packetsPlayed = 0
            /\ pb.outputBufferPos = 0
            /\ pb.outputBufferCount = 0

\* a file whose packets are counted up to the record of size 0
WitC35 ==
    /\ StartedOn(QueuePath(0, 0))
    /\ Accepted
    /\ sd[QueuePath(0, 0)] = ZeroSize
    /\ pb.totalPackets = 1

\* a stream whose longest packet and the one after it are both counted
WitC35Max ==
    /\ StartedOn(QueuePath(0, 0))
    /\ Accepted
    /\ sd[QueuePath(0, 0)] = FileHeader \o MaxPacket \o GoodPacket
    /\ pb.totalPackets = 2

-----------------------------------------------------------------------------
(* The receiver on a byte stream chosen at the start, delivered in any chunks *)

\* all sequences over S of length up to n
SeqsUpTo(S, n) == UNION {[1..k -> S] : k \in 0..n}

\* begin() has returned and the bridge is about to send the stream; c notes
\* what the stream is made of, card tells whether files can be opened
ListeningOn(stream, c, card) ==
    /\ sp = begin(SerialProtocolCtor, TRUE, U32Zero)
    /\ sd = EmptyStore
    /\ sdOk = card
    /\ wire = stream
    /\ avail = <<>>
    /\ ret = TRUE
    /\ now = <<0, BEGIN_DELAY_MS>>
    /\ h = H0
    /\ cur = [c EXCEPT !.payload = stream, !.left = Len(stream)]
    /\ clk = Elapse(Clk0, <<0, BEGIN_DELAY_MS>>)
    /\ pb = PlaybackEngineCtor
    /\ ph = Ph0
    /\ rec = RecordingEngineCtor
    /\ tx = <<>>
    /\ rg = Rg0
    /\ cardIn = TRUE
    /\ free = CardRoom
    /\ dirs = StartupDirs

ListeningTo(stream, c) == ListeningOn(stream, c, TRUE)

Listening(stream) == ListeningTo(stream, [NoCur EXCEPT !.kind = "stream"])

\* the bytes of the stream the receiver has consumed
Consumed == SubSeq(cur.payload, 1, Len(cur.payload) - cur.left)

MaxSearch == 5       \* longest stream of the sync search

\* sync A, sync B and another byte
SearchBytes == {SYNC_BYTE_1, SYNC_BYTE_2, 0}

InitSync == \E stream \in SeqsUpTo(SearchBytes, MaxSearch) : Listening(stream)

NextSync ==
    \/ \E k \in 1..MaxChunk : Deliver(k)
    \/ ProcessIncoming

SpecSync == InitSync /\ [][NextSync]_vars

\* the places of a byte sequence where sync B follows sync A
SyncPairs(c) == {i \in 2..Len(c) : c[i - 1] = SYNC_BYTE_1 /\ c[i] = SYNC_BYTE_2}

Least(S) == CHOOSE x \in S : \A y \in S : x <= y

\* C34: in WaitSync1 only byte 0xAA moves to WaitSync2; in WaitSync2 byte
\* 0x55 moves to ReadLength, byte 0xAA stays in WaitSync2 and any other byte
\* returns to WaitSync1; hence the first occurrence of 0xAA 0x55 in the bytes
\* seen while searching (AA AA 55 included) starts a frame, whose four length
\* bytes are read next, and without one the receiver is still searching.
ThmC34 ==
    /\ (h.lastByte >= 0 /\ h.pre.rxState = "RX_WAIT_SYNC1") =>
          sp.rxState = (IF h.lastByte = SYNC_BYTE_1 THEN "RX_WAIT_SYNC2"
                        ELSE "RX_WAIT_SYNC1")
    /\ (h.lastByte >= 0 /\ h.pre.rxState = "RX_WAIT_SYNC2") =>
          sp.rxState = (IF h.lastByte = SYNC_BYTE_2 THEN "RX_READ_LENGTH"
                        ELSE IF h.lastByte = SYNC_BYTE_1 THEN "RX_WAIT_SYNC2"
                        ELSE "RX_WAIT_SYNC1")
    /\ LET c == Consumed
       IN  IF SyncPairs(c) = {}
           THEN sp.rxState = (IF c # <<>> /\ c[Len(c)] = SYNC_BYTE_1
                              THEN "RX_WAIT_SYNC2" ELSE "RX_WAIT_SYNC1")
           ELSE Len(c) - Least(SyncPairs(c)) < 4 =>
                   /\ sp.rxState = "RX_READ_LENGTH"
                   /\ sp.rxLengthPos = Len(c) - Least(SyncPairs(c))

\* AA AA 55 was consumed and the length of a frame is awaited
WitC34 ==
    /\ Consumed = <<SYNC_BYTE_1, SYNC_BYTE_1, SYNC_BYTE_2>>
    /\ sp.rxState = "RX_READ_LENGTH"
    /\ sp.rxLengthPos = 0

\* sync A, another byte, sync B: still searching
WitC34Restart ==
    /\ Consumed = <<SYNC_BYTE_1, 0, SYNC_BYTE_2>>
    /\ sp.rxState = "RX_WAIT_SYNC1"

-----------------------------------------------------------------------------
(* The blocks the feed loop gives to the sink *)

\* C36: every pass of the feed loop either gives the sink exactly one block
\* or tries to decode a packet, never both; a block holds min(128, remaining)
\* samples of the residual, taken where the block before ended, and zeros
\* after them; a packet is decoded, and a file completed, only when no
\* residual sample is left unsent.  (Within a playback: stopPlayback() gives
\* up the residual with the file.)
ThmC36 ==
    /\ ph.call = "process" => ph.loops = ph.pushed + ph.tries
    /\ ph.block.n = (IF ph.block.left < AUDIO_BLOCK_SAMPLES THEN ph.block.left
                     ELSE AUDIO_BLOCK_SAMPLES)
    /\ ph.block.n + ph.block.pad = (IF ph.block = NoBlock THEN 0 ELSE AUDIO_BLOCK_SAMPLES)
    /\ ph.block # NoBlock => ph.block.n > 0
    /\ ph.next >= 0
    /\ pb.state = "PLAYBACK_PLAYING" => ph.next = pb.outputBufferPos
    /\ ph.dropped = 0

\* a call of one pass that gave the sink the last block of a packet, 114
\* samples and 14 zeros, and decoded nothing
WitC36 ==
    /\ ph.call = "process"
    /\ ph.decodes = 1
    /\ ph.block = [from |-> 6 * AUDIO_BLOCK_SAMPLES,
                   left |-> RESAMPLE_OUTPUT_SAMPLES - 6 * AUDIO_BLOCK_SAMPLES,
                   n |-> RESAMPLE_OUTPUT_SAMPLES - 6 * AUDIO_BLOCK_SAMPLES,
                   pad |-> 7 * AUDIO_BLOCK_SAMPLES - RESAMPLE_OUTPUT_SAMPLES]
    /\ ph.tries = 0 /\ ph.pushed = 1 /\ ph.loops = 1
    /\ pb.outputBufferPos = RESAMPLE_OUTPUT_SAMPLES
    /\ pb.outputBufferCount = RESAMPLE_OUTPUT_SAMPLES

\* the second packet of a file was decoded after the seven blocks of the first
WitC36Next ==
    /\ ph.call = "process"
    /\ ph.decodes = 2
    /\ ph.tries = 2 /\ ph.pushed = 8 /\ ph.loops = LOOP_LIMIT
    /\ pb.outputBufferPos = AUDIO_BLOCK_SAMPLES

\* a file was completed and removed in the pass after its last block
WitC36Done ==
    /\ ph.call = "process"
    /\ ph.removed # {}
    /\ ph.block.pad > 0
    /\ ph.tries > 0 /\ ph.pushed > 0

-----------------------------------------------------------------------------
(* Control frames, byte by byte *)

\* join, part, ping and three types the protocol does not know
ControlTypes == {MSG_TYPE_JOIN, MSG_TYPE_PART, MSG_TYPE_PING, 0, 4, 255}

\* "", "A", "B", "AB"
ControlNames == {<<>>, <<65>>, <<66>>, <<65, 66>>}

\* nothing, or the join of "A", before the frame
ControlLeads == {<<>>, ControlFrame(MSG_TYPE_JOIN, <<65>>)}

InitCtl ==
    \E lead \in ControlLeads, type \in ControlTypes, name \in ControlNames :
        ListeningTo(lead \o ControlFrame(type, name),
                    [NoCur EXCEPT !.kind = "control", !.ch = CONTROL_CHANNEL,
                                  !.name = name, !.garbage = Len(lead)])

SpecCtl == InitCtl /\ [][NextSync]_vars

\* the type byte of the frame, and the bytes of it consumed (negative while
\* what precedes it is being read)
CtlType == cur.payload[cur.garbage + 8]
CtlPos == Len(Consumed) - cur.garbage

CtlNamed == CtlType \in {MSG_TYPE_JOIN, MSG_TYPE_PART} /\ cur.name # <<>>

\* the roster before the frame, and after a join or part of name
RosterLed == IF cur.garbage = 0 THEN <<>> ELSE <<(<<65>>)>>
RosterActed(r, type, name) ==
    IF type = MSG_TYPE_JOIN
    THEN IF \E i \in 1..Len(r) : r[i] = name THEN r ELSE Append(r, name)
    ELSE SelectSeq(r, LAMBDA u : u # name)

\* the state of the receiver after p bytes of a control frame
CtlState(p) ==
    IF p = 0 THEN "RX_WAIT_SYNC1"
    ELSE IF p = 1 THEN "RX_WAIT_SYNC2"
    ELSE IF p <= 5 THEN "RX_READ_LENGTH"
    ELSE IF p = 6 THEN "RX_READ_CHANNEL"
    ELSE IF p = 7 THEN "RX_READ_MSG_TYPE"
    ELSE IF CtlType \notin {MSG_TYPE_JOIN, MSG_TYPE_PART} THEN "RX_WAIT_SYNC1"
    ELSE IF p = 8 THEN "RX_READ_USERNAME_LEN"
    ELSE IF p < 9 + Len(cur.name) THEN "RX_READ_USERNAME"
    ELSE "RX_WAIT_SYNC1"

\* C37: a control frame is parsed as msgtype, username length, username and
\* then the receiver is back in WaitSync1; a join or part changes the roster
\* when its last username byte is consumed, not before and not again; ping
\* and unknown types reset at the type byte and leave the roster alone; no
\* control frame creates a file, raises the ready flag or makes
\* processIncoming() return true.
ThmC37 ==
    /\ CtlPos >= 0 => sp.rxState = CtlState(CtlPos)
    /\ Roster(sp) = (IF CtlNamed /\ CtlPos >= 9 + Len(cur.name)
                     THEN RosterActed(RosterLed, CtlType, cur.name)
                     ELSE IF cur.garbage > 0 /\ CtlPos < 0 THEN <<>>
                     ELSE RosterLed)
    /\ DOMAIN sd = {}
    /\ ~sp.rxFileReady
    /\ h.lastOpen = "none"
    /\ h.lastByte >= 0 => ~ret

\* the part of "A" after its join: the roster is empty again and the
\* receiver waits for sync
WitC37 ==
    /\ cur.garbage > 0
    /\ CtlType = MSG_TYPE_PART /\ cur.name = <<65>>
    /\ cur.left = 0
    /\ Roster(sp) = <<>>
    /\ sp.userListChanged
    /\ sp.rxState = "RX_WAIT_SYNC1"

\* a join read up to the byte before the last of its name: nothing yet
WitC37Before ==
    /\ CtlType = MSG_TYPE_JOIN /\ cur.name = <<65, 66>>
    /\ cur.left = 1
    /\ cur.garbage = 0
    /\ Roster(sp) = <<>>
    /\ sp.rxState = "RX_READ_USERNAME"

\* a ping read up to its type byte
WitC37Ping ==
    /\ CtlType = MSG_TYPE_PING
    /\ CtlPos = 8
    /\ sp.rxState = "RX_WAIT_SYNC1"

-----------------------------------------------------------------------------
(* The accumulator of the encoder *)

\* after every call the accumulator holds fewer samples than one frame needs
\* and never more than its capacity; fed blocks of 128 samples, no sample is
\* dropped and no packet is stored over one not fetched
AccumulatorKept ==
    /\ rec.codec.accumulatorCount < RESAMPLE_INPUT_SAMPLES
    /\ rec.codec.accumulatorCount <= ACCUMULATOR_SIZE
    /\ rg.dropped = 0
    /\ ~rg.clobbered

-----------------------------------------------------------------------------
(* One byte stream, split over the calls of processIncoming() in any way *)

\* frames of every kind, whole, and a stray sync byte
Segments ==
    {AudioFrame(1, <<65>>, Payload(2)), AudioFrame(2, <<>>, Payload(1)),
     ControlFrame(MSG_TYPE_JOIN, <<65>>), ControlFrame(MSG_TYPE_PART, <<65>>),
     ZeroLengthFrame(1), CorruptLengthFrame(<<255, 255, 255, 255>>),
     <<SYNC_BYTE_1>>}

MaxSegments == 2     \* segments of a stream

RECURSIVE Streams(_)
Streams(n) ==
    IF n = 0 THEN {<<>>}
    ELSE Streams(n - 1) \union {s \o g : s \in Streams(n - 1), g \in Segments}

InitPart ==
    \E stream \in Streams(MaxSegments), card \in BOOLEAN :
        ListeningOn(stream, [NoCur EXCEPT !.kind = "stream"], card)

\* all that is left of the stream arrives at once
DeliverRest ==
    /\ Len(wire) > MaxChunk
    /\ avail' = avail \o wire
    /\ wire' = <<>>
    /\ UNCHANGED <<tx, recOnly, pb, ph, sp, sd, sdOk, ret, now, h, cur, clk>>

NextPart ==
    \/ \E k \in 1..MaxChunk : Deliver(k)
    \/ DeliverRest
    \/ ProcessIncoming

SpecPart == InitPart /\ [][NextPart]_vars

\* processIncoming() called on a buffer that holds all of buf, again and
\* again until the buffer is empty
RECURSIVE RunAll(_, _, _, _)
RunAll(m, buf, ok, t) ==
    IF buf = <<>> THEN m
    ELSE With(processIncoming(m, buf, ok, t), LAMBDA r :
           IF r.rest = buf THEN r.m ELSE RunAll(r.m, r.rest, ok, t))

\* the receiver and the card after the bytes consumed so far, had they all
\* been in the serial buffer at the first call
AtOnce ==
    RunAll([sp |-> begin(SerialProtocolCtor, TRUE, U32Zero), sd |-> EmptyStore, h |-> H0],
           Consumed, sdOk, now)

\* C39: whatever the split of the byte stream over the calls of
\* processIncoming(), after the same bytes the files on the card, the roster,
\* the ready flag and the receive state (all of the receiver's fields) are
\* what they are when the bytes are all there at the first call; a call that
\* returns after a completed file or control message leaves the bytes after
\* it in the serial buffer.
ThmC39 ==
    /\ sp = AtOnce.sp
    /\ sd = AtOnce.sd
    /\ Len(Consumed) + Len(avail) + Len(wire) = Len(cur.payload)
    /\ Consumed \o avail \o wire = cur.payload

\* two audio frames consumed: two files on the card
WitC39 ==
    /\ cur.payload = AudioFrame(1, <<65>>, Payload(2)) \o AudioFrame(2, <<>>, Payload(1))
    /\ cur.left = 0
    /\ Cardinality(DOMAIN sd) = 2
    /\ sp.rxFileReady
    /\ sp.rxState = "RX_WAIT_SYNC1"
    /\ h.completed = 2

\* a join and the frame after it arrived at once: the call returned after
\* the join and the frame is still in the serial buffer
WitC39Early ==
    /\ cur.payload = ControlFrame(MSG_TYPE_JOIN, <<65>>) \o AudioFrame(1, <<65>>, Payload(2))
    /\ Roster(sp) = <<(<<65>>)>>
    /\ avail = AudioFrame(1, <<65>>, Payload(2))
    /\ sp.rxState = "RX_WAIT_SYNC1"

-----------------------------------------------------------------------------
(* Frames whose username length is at, and above, MAX_USERNAME_LEN *)

\* a name of n bytes, its last byte different from the others
NameOf(n) == [i \in 1..n |-> IF i = n THEN 66 ELSE 65]

\* lengths up to the limit, one above it, and the largest a byte announces
NameLengths == {1, MAX_USERNAME_LEN, MAX_USERNAME_LEN + 1, 255}

InitName ==
    \E n \in NameLengths, card \in BOOLEAN :
        \/ ListeningOn(AudioFrame(1, NameOf(n), Payload(2)),
                       [NoCur EXCEPT !.kind = "audio", !.ch = 1, !.name = NameOf(n)],
                       card)
        \/ ListeningOn(ControlFrame(MSG_TYPE_JOIN, NameOf(n)),
                       [NoCur EXCEPT !.kind = "control", !.ch = CONTROL_CHANNEL,
                                     !.name = NameOf(n)],
                       card)

SpecName == InitName /\ [][NextSync]_vars

\* the index the next username byte is written at, and the index of the
\* terminator, are within the buffer; the index the next length byte is
\* written at is within 0..3
IndexesKept ==
    /\ sp.rxState = "RX_READ_USERNAME" =>
          /\ sp.rxUsernamePos < sp.rxUsernameLen
          /\ sp.rxUsernameLen <= MAX_USERNAME_LEN
    /\ sp.rxUsernamePos <= MAX_USERNAME_LEN
    /\ sp.rxUsernameLen <= MAX_USERNAME_LEN
    /\ Len(sp.rxUsername) = MAX_USERNAME_LEN + 1
    /\ sp.rxState = "RX_READ_LENGTH" => sp.rxLengthPos \in 0..3
    /\ Len(sp.rxLengthBytes) = 4

\* the receiver is looking for sync
Searching == sp.rxState \in {"RX_WAIT_SYNC1", "RX_WAIT_SYNC2"}

\* the receiver looks for the next sync when the frame sent has been
\* consumed, and not before
FrameConsumed ==
    /\ Len(Consumed) \in 2..(Len(cur.payload) - 1) => ~Searching
    /\ cur.left = 0 => sp.rxState = "RX_WAIT_SYNC1"

\* C40 as stated: for every byte stream, username-length bytes above 31
\* included, the username write index stays within the 32-byte buffer and the
\* length-byte index within 0..3, and after a username-length byte above 31
\* the receiver still consumes exactly the announced frame before it looks
\* for the next sync.
ClaimC40 == IndexesKept /\ FrameConsumed

\* what holds: the indexes are kept for every frame, and frames with a
\* username of at most 31 bytes are consumed exactly
KeptAndAligned ==
    /\ IndexesKept
    /\ Len(cur.name) <= MAX_USERNAME_LEN => FrameConsumed

\* a frame announcing a username of 32 bytes: the receiver has completed a
\* file and looks for sync while the last byte of the frame is still to come
EarlySync ==
    /\ cur.kind = "audio" /\ Len(cur.name) = MAX_USERNAME_LEN + 1
    /\ cur.left = 1
    /\ sp.rxState = "RX_WAIT_SYNC1"
    /\ sp.rxFileReady
    /\ sd[sp.rxFilePath] = <<cur.name[MAX_USERNAME_LEN + 1], Payload(2)[1]>>

====
